---- MODULE Spec2Model ----
(***************************************************************************)
(* Data-contract-driven stock analysis engine of AI-RadarX:                *)
(*   AnalysisContext, DataAccessManager, AgentDataContract,                *)
(*   StockAnalysisEngine and its five phase executors.                     *)
(*                                                                         *)
(* Python values are modelled as follows: a dict is a function whose       *)
(* DOMAIN is the set of its keys, a list is a sequence, None is the        *)
(* string "<None>", datetime.now() is a reading of the counter clock.      *)
(***************************************************************************)
EXTENDS Integers, Sequences, FiniteSets, TLC

VARIABLES
    ctx,          \* the AnalysisContext object (five layers, updated_at, data_lineage)
    access_log,   \* DataAccessManager.access_log
    clock,        \* number of datetime.now() readings made so far
    call,         \* the public operation performed by the last step, with its arguments
    ncalls,       \* number of public operations performed so far
    ret           \* the value returned by the last get_data call

access_vars == <<ctx, access_log, clock, call, ncalls, ret>>

VARIABLES
    cfg,          \* the engine's constructor arguments and the arguments of analyze
    pc,           \* position of the thread that runs analyze
    phase,        \* index (1..5) of the phase the engine loop is at
    result,       \* the AnalysisResult being built
    exc,          \* the exception the running executor raised (NoneV: none)
    phase_outputs, \* the outputs dict of the running phase executor
    workers,      \* ThreadPoolExecutor of the Analysts phase: analyst -> work item state
    agent_state,  \* the locals of the running executor (a debate phase: its agent state)
    invoked,      \* history: the phases whose executor.execute has been called
    raised,       \* history: <<phase, text>> of every exception an executor raised
    faults,       \* history: <<phase, "agent_raised" | "malformed">> events
    committed     \* history: the context as it was when the last phase returned

engine_vars == <<cfg, pc, phase, result, exc, phase_outputs, workers, agent_state,
                 invoked, raised, faults, committed>>

VARIABLES
    schema,            \* the DynamicDataSchema singleton: its core, agent and extension fields
    registered_agents, \* ContractValidator._registered_agents
    results            \* the ValidationResults returned by the last validate call

schema_vars == <<schema, registered_agents, results>>

vars == <<access_vars, engine_vars, schema_vars>>

-----------------------------------------------------------------------------
(* Bounds of the model *)

\* number of public calls made on one context/manager pair in SpecAccess
MaxCalls == 2

\* number of public calls made on the schema (SpecSchema) and on the
\* validator (SpecValidator)
MaxSchemaCalls == 3

-----------------------------------------------------------------------------
(* Python values *)

(* A value held by a dict of the program is a record with one field that   *)
(* names its type, so that values of different types can be compared:      *)
(*   None, a str (a sequence of tokens: characters for a ticker, words for *)
(*   a text), a dict (a function on its keys), a number (in hundredths).   *)
(* Identifiers (agent ids, field names, layer names, sources) are strings; *)
(* the source None is the string None.                                     *)

None == "<None>"

NoneV == [none |-> TRUE]

S(tokens) == [str |-> tokens]

D(d) == [dict |-> d]

N(hundredths) == [num |-> hundredths]

IsNone(v) == "none" \in DOMAIN v

IsStr(v) == "str" \in DOMAIN v

IsDict(v) == "dict" \in DOMAIN v

IsNum(v) == "num" \in DOMAIN v

\* bool(v)
TruthyV(v) ==
    CASE IsNone(v) -> FALSE
      [] IsStr(v) -> v.str # <<>>
      [] IsDict(v) -> DOMAIN v.dict # {}
      [] IsNum(v) -> v.num # 0
      [] OTHER -> TRUE

\* bool(x) for an identifier or None
Truthy(x) == x # None /\ x # ""

\* a or b
OrElse(a, b) == IF TruthyV(a) THEN a ELSE b

EmptyDict == <<>>

\* d[k] = v
DictSet(d, k, v) == [x \in (DOMAIN d) \cup {k} |-> IF x = k THEN v ELSE d[x]]

\* d.get(k, default)
DictGet(d, k, default) == IF k \in DOMAIN d THEN d[k] ELSE default

\* d.update(e)
DictUpdate(d, e) ==
    [x \in (DOMAIN d) \cup (DOMAIN e) |-> IF x \in DOMAIN e THEN e[x] ELSE d[x]]

\* the elements of a list
Range(s) == {s[i] : i \in DOMAIN s}

-----------------------------------------------------------------------------
(* data_contract.py *)

CONTEXT == "context"
RAW_DATA == "raw_data"
ANALYSIS_DATA == "analysis_data"
REPORTS == "reports"
DECISIONS == "decisions"

DataLayer == {CONTEXT, RAW_DATA, ANALYSIS_DATA, REPORTS, DECISIONS}

\* DataAccess(layer, fields, required)
DataAccess(layer, fields, required) ==
    [layer |-> layer, fields |-> fields, required |-> required]

\* AgentDataContract(agent_id, inputs, outputs); depends_on defaults to set()
AgentDataContract(agent_id, inputs, outputs) ==
    [agent_id |-> agent_id, inputs |-> inputs, outputs |-> outputs,
     depends_on |-> {}]

\* AgentDataContract(agent_id, inputs, outputs, depends_on)
ContractDependingOn(agent_id, inputs, outputs, depends_on) ==
    [AgentDataContract(agent_id, inputs, outputs) EXCEPT !.depends_on = depends_on]

-----------------------------------------------------------------------------
(* analysis_context.py *)

\* AnalysisContext(): five empty layers, empty lineage, both timestamps now
NewAnalysisContext(now) ==
    [context |-> EmptyDict, raw_data |-> EmptyDict, analysis_data |-> EmptyDict,
     reports |-> EmptyDict, decisions |-> EmptyDict,
     created_at |-> now, updated_at |-> now, data_lineage |-> EmptyDict]

\* layer_map.get(layer, {}): the attribute of the context that holds the layer
get_layer_data(c, layer) == c[layer]

\* AnalysisContext.get
AnalysisContext_get(c, layer, field_name, default) ==
    DictGet(get_layer_data(c, layer), field_name, default)

\* f"{layer.value}.{field_name}"
lineage_key(layer, field_name) == layer \o "." \o field_name

\* a store that replaces the layer by a dict that holds the one field
set_store_fresh(c, layer, field_name, value) ==
    [c EXCEPT ![layer] = DictSet(EmptyDict, field_name, value)]

\* a set that keeps one dict for all layers
set_store_mixed(c, layer, field_name, value) ==
    [L \in DOMAIN c |->
        IF L \in DataLayer THEN DictSet(c[L], field_name, value) ELSE c[L]]

\* first two statements of AnalysisContext.set: layer_data[field_name] = value
set_store(c, layer, field_name, value) ==
    [c EXCEPT ![layer] = DictSet(@, field_name, value)]

\* self.updated_at = <the value read from datetime.now()>
set_stamp(c, now) == [c EXCEPT !.updated_at = now]

\* a set that records no lineage
set_lineage_dropped(c, layer, field_name, source) == c

\* a set that records the source whatever it is
set_lineage_unguarded(c, layer, field_name, source) ==
    [c EXCEPT !.data_lineage = DictSet(@, lineage_key(layer, field_name), source)]

\* if source: self.data_lineage[f"{layer.value}.{field_name}"] = source
set_lineage(c, layer, field_name, source) ==
    IF Truthy(source)
    THEN [c EXCEPT !.data_lineage = DictSet(@, lineage_key(layer, field_name), source)]
    ELSE c

\* AnalysisContext.set, run without interruption
AnalysisContext_set(c, layer, field_name, value, source, now) ==
    set_lineage(set_stamp(set_store(c, layer, field_name, value), now),
                layer, field_name, source)

\* AnalysisContext.get_layer: self._get_layer_data(layer).copy()
get_layer(c, layer) == get_layer_data(c, layer)

\* AnalysisContext.get_field_source
get_field_source(c, layer, field_name) ==
    DictGet(c.data_lineage, lineage_key(layer, field_name), None)

-----------------------------------------------------------------------------
(* data_access_manager.py *)

\* AccessLogEntry
AccessLogEntry(agent_id, layer, fields, action, timestamp) ==
    [agent_id |-> agent_id, layer |-> layer, fields |-> fields, action |-> action,
     timestamp |-> timestamp, success |-> TRUE, error |-> None]

\* The state a DataAccessManager call works on: the context, the log, the clock.
DamState(c, log, clk) == [ctx |-> c, log |-> log, clock |-> clk]

\* DataAccessManager._log_access: one datetime.now() reading, one append
log_access(st, agent_id, layer, fields, action) ==
    [st EXCEPT !.clock = @ + 1,
               !.log = Append(@, AccessLogEntry(agent_id, layer, fields, action,
                                                st.clock + 1))]

\* an inner loop body of set_data that logs a write entry for a declared field
\* also when outputs has no such key
set_data_field_logs_misses(st, agent_id, layer, field_name, outputs) ==
    log_access(
        IF field_name \in DOMAIN outputs
        THEN [st EXCEPT !.clock = @ + 1,
                        !.ctx = AnalysisContext_set(@, layer, field_name,
                                                    outputs[field_name], agent_id,
                                                    st.clock + 1)]
        ELSE st,
        agent_id, layer, <<field_name>>, "write")

\* body of the inner loop of set_data for one declared field
set_data_field(st, agent_id, layer, field_name, outputs) ==
    IF field_name \in DOMAIN outputs
    THEN log_access(
            [st EXCEPT !.clock = @ + 1,
                       !.ctx = AnalysisContext_set(@, layer, field_name,
                                                   outputs[field_name], agent_id,
                                                   st.clock + 1)],
            agent_id, layer, <<field_name>>, "write")
    ELSE st

\* for field_name in access.fields: ...
RECURSIVE set_data_fields(_, _, _, _, _, _)
set_data_fields(st, agent_id, layer, fields, outputs, i) ==
    IF i > Len(fields) THEN st
    ELSE set_data_fields(set_data_field(st, agent_id, layer, fields[i], outputs),
                         agent_id, layer, fields, outputs, i + 1)

\* a set_data that iterates over the keys of outputs
set_data_every_key(access, outputs) ==
    CHOOSE s \in [1 .. Cardinality(DOMAIN outputs) -> DOMAIN outputs] :
        Range(s) = DOMAIN outputs

\* the fields set_data iterates over for one output DataAccess: access.fields
set_data_iterated(access, outputs) == access.fields

\* for access in contract.outputs: ...
RECURSIVE set_data_accesses(_, _, _, _, _)
set_data_accesses(st, agent_id, accesses, outputs, i) ==
    IF i > Len(accesses) THEN st
    ELSE set_data_accesses(
            set_data_fields(st, agent_id, accesses[i].layer,
                            set_data_iterated(accesses[i], outputs), outputs, 1),
            agent_id, accesses, outputs, i + 1)

\* DataAccessManager.set_data
set_data(st, agent_id, contract, outputs) ==
    set_data_accesses(st, agent_id, contract.outputs, outputs, 1)

\* get_data's loop over access.fields with the test of access.required left out
RECURSIVE get_data_fields_none_for_optional(_, _, _, _, _)
get_data_fields_none_for_optional(data, layer_data, fields, required, i) ==
    IF i > Len(fields) THEN data
    ELSE get_data_fields_none_for_optional(
            IF fields[i] \in DOMAIN layer_data
            THEN DictSet(data, fields[i], layer_data[fields[i]])
            ELSE DictSet(data, fields[i], NoneV),
            layer_data, fields, required, i + 1)

\* for field_name in access.fields of get_data: the data dict after the loop
RECURSIVE get_data_fields(_, _, _, _, _)
get_data_fields(data, layer_data, fields, required, i) ==
    IF i > Len(fields) THEN data
    ELSE get_data_fields(
            IF fields[i] \in DOMAIN layer_data
            THEN DictSet(data, fields[i], layer_data[fields[i]])
            ELSE IF required THEN DictSet(data, fields[i], NoneV) ELSE data,
            layer_data, fields, required, i + 1)

\* list(layer_data.keys()): the keys of the layer in some order
KeyList(d) ==
    CHOOSE s \in [1 .. Cardinality(DOMAIN d) -> DOMAIN d] : Range(s) = DOMAIN d

\* for access in contract.inputs of get_data; r = [st, data]
RECURSIVE get_data_accesses(_, _, _, _)
get_data_accesses(r, agent_id, accesses, i) ==
    IF i > Len(accesses) THEN r
    ELSE LET access == accesses[i]
             layer_data == get_layer(r.st.ctx, access.layer)
             data == IF access.fields # <<>>
                     THEN get_data_fields(r.data, layer_data, access.fields,
                                          access.required, 1)
                     ELSE DictUpdate(r.data, layer_data)
             logged == log_access(r.st, agent_id, access.layer,
                                  IF access.fields # <<>> THEN access.fields
                                  ELSE KeyList(layer_data),
                                  "read")
         IN get_data_accesses([st |-> logged, data |-> data], agent_id, accesses, i + 1)

\* DataAccessManager.get_data
get_data(st, agent_id, contract) ==
    get_data_accesses([st |-> st, data |-> EmptyDict], agent_id, contract.inputs, 1)

\* AgentDataContract.has_output_access
has_output_access(contract, layer, field) ==
    \E i \in DOMAIN contract.outputs :
        /\ contract.outputs[i].layer = layer
        /\ \/ ~Truthy(field)
           \/ contract.outputs[i].fields = <<>>
           \/ field \in Range(contract.outputs[i].fields)

\* AgentDataContract.has_input_access
has_input_access(contract, layer, field) ==
    \E i \in DOMAIN contract.inputs :
        /\ contract.inputs[i].layer = layer
        /\ \/ ~Truthy(field)
           \/ contract.inputs[i].fields = <<>>
           \/ field \in Range(contract.inputs[i].fields)

\* DataAccessManager.validate_access
validate_access(agent_id, contract, layer, field_name, action) ==
    IF action = "read" THEN has_input_access(contract, layer, field_name)
    ELSE IF action = "write" THEN has_output_access(contract, layer, field_name)
    ELSE FALSE

-----------------------------------------------------------------------------
(* Calls on one AnalysisContext and its DataAccessManager (SpecAccess) *)

\* contracts/analysts.py: MARKET_ANALYST_CONTRACT
MARKET_ANALYST_CONTRACT ==
    AgentDataContract("market_analyst",
        << DataAccess(CONTEXT, <<"ticker", "company_name", "trade_date">>, TRUE),
           DataAccess(RAW_DATA, <<"price_data">>, TRUE) >>,
        << DataAccess(ANALYSIS_DATA, <<"technical">>, TRUE),
           DataAccess(REPORTS, <<"market_report">>, TRUE) >>)

\* contracts/traders.py: RISK_MANAGER_CONTRACT
RISK_MANAGER_CONTRACT ==
    ContractDependingOn("risk_manager",
        << DataAccess(CONTEXT, <<"ticker", "company_name", "trade_date">>, TRUE),
           DataAccess(REPORTS,
                      <<"risky_risk_report", "safe_risk_report", "neutral_risk_report">>,
                      TRUE),
           DataAccess(DECISIONS, <<"trade_signal">>, TRUE) >>,
        << DataAccess(DECISIONS, <<"risk_assessment", "final_decision">>, TRUE) >>,
        {"risky_risk", "safe_risk", "neutral_risk"})

\* a contract with whole-layer accesses (DataAccess(layer) with the default fields=[])
WHOLE_LAYER_CONTRACT ==
    AgentDataContract("reporter",
        << DataAccess(REPORTS, <<>>, TRUE) >>,
        << DataAccess(REPORTS, <<>>, TRUE) >>)

\* a contract that declares one field name as output in two layers
TWO_LAYER_CONTRACT ==
    AgentDataContract("copier",
        << DataAccess(DECISIONS, <<"market_report">>, FALSE) >>,
        << DataAccess(CONTEXT, <<"market_report">>, TRUE),
           DataAccess(DECISIONS, <<"market_report">>, TRUE) >>)

\* a contract that reads one field name from several layers and writes nothing
SAME_NAME_CONTRACT ==
    AgentDataContract("reader",
        << DataAccess(CONTEXT, <<"ticker", "market_report">>, TRUE),
           DataAccess(DECISIONS, <<"market_report", "ticker">>, TRUE),
           DataAccess(REPORTS, <<"ticker">>, FALSE) >>,
        << >>)

AccessContracts ==
    {MARKET_ANALYST_CONTRACT, RISK_MANAGER_CONTRACT, WHOLE_LAYER_CONTRACT,
     TWO_LAYER_CONTRACT, SAME_NAME_CONTRACT}

AccessAgents == {"market_analyst", "risk_manager"}

AccessValues == {S(<<"v1">>), S(<<"v2">>)}

AccessFields == {"market_report", "ticker"}

AccessSources == {None, "", "init", "market_analyst"}

\* the outputs maps handed to set_data
AccessOutputs ==
    { EmptyDict,
      [k \in {"market_report", "final_decision"} |->
          IF k = "market_report" THEN S(<<"v1">>) ELSE S(<<"v2">>)],
      [k \in {"market_report", "ticker", "technical"} |->
          IF k = "ticker" THEN S(<<"v1">>) ELSE S(<<"v2">>)] }

NoCall == [op |-> "none"]

\* the engine is not part of this specification
EngineUnused ==
    /\ cfg = EmptyDict /\ pc = "unused" /\ phase = 0 /\ result = EmptyDict
    /\ exc = NoneV /\ phase_outputs = EmptyDict /\ workers = EmptyDict
    /\ agent_state = EmptyDict /\ invoked = <<>> /\ raised = <<>> /\ faults = {}
    /\ committed = EmptyDict

\* the schema and the validator are not part of this specification
SchemaUnused ==
    schema = EmptyDict /\ registered_agents = EmptyDict /\ results = EmptyDict

InitAccess ==
    /\ ctx = NewAnalysisContext(0)
    /\ access_log = <<>>
    /\ clock = 0
    /\ call = NoCall
    /\ ncalls = 0
    /\ ret = EmptyDict
    /\ EngineUnused
    /\ SchemaUnused

\* context.set(layer, field_name, value, source)
CallSet(layer, field_name, value, source) ==
    /\ ncalls < MaxCalls
    /\ ctx' = AnalysisContext_set(ctx, layer, field_name, value, source, clock + 1)
    /\ clock' = clock + 1
    /\ call' = [op |-> "set", layer |-> layer, field_name |-> field_name,
                value |-> value, source |-> source]
    /\ ncalls' = ncalls + 1
    /\ UNCHANGED <<access_log, ret, engine_vars, schema_vars>>

\* data_manager.set_data(agent_id, contract, outputs)
CallSetData(agent_id, contract, outputs) ==
    /\ ncalls < MaxCalls
    /\ LET st == set_data(DamState(ctx, access_log, clock), agent_id, contract, outputs)
       IN /\ ctx' = st.ctx
          /\ access_log' = st.log
          /\ clock' = st.clock
    /\ call' = [op |-> "set_data", agent_id |-> agent_id, contract |-> contract,
                outputs |-> outputs]
    /\ ncalls' = ncalls + 1
    /\ UNCHANGED <<ret, engine_vars, schema_vars>>

\* data_manager.get_data(agent_id, contract)
CallGetData(agent_id, contract) ==
    /\ ncalls < MaxCalls
    /\ LET r == get_data(DamState(ctx, access_log, clock), agent_id, contract)
       IN /\ ctx' = r.st.ctx
          /\ access_log' = r.st.log
          /\ clock' = r.st.clock
          /\ ret' = r.data
    /\ call' = [op |-> "get_data", agent_id |-> agent_id, contract |-> contract]
    /\ ncalls' = ncalls + 1
    /\ UNCHANGED <<engine_vars, schema_vars>>

NextAccess ==
    \/ \E layer \in DataLayer, field_name \in AccessFields, value \in AccessValues,
          source \in AccessSources : CallSet(layer, field_name, value, source)
    \/ \E agent_id \in AccessAgents, contract \in AccessContracts,
          outputs \in AccessOutputs : CallSetData(agent_id, contract, outputs)
    \/ \E agent_id \in AccessAgents, contract \in AccessContracts :
          CallGetData(agent_id, contract)

SpecAccess == InitAccess /\ [][NextAccess]_vars

(* phase_executors/base.py: what a call of PhaseExecutor.execute yields *)

\* the result of a step of an executor: its local state, the exception it
\* let escape (NoneV: none), and what happened to the agent it called
Step(st, e, events) == [state |-> st, exc |-> e, events |-> events]

\* the result of an executor: the context, the clock, the outputs it returned
\* or the exception it raised, and what happened to the agents it called
Executed(c, clk, outs, e, events) ==
    [ctx |-> c, clock |-> clk, outputs |-> outs, exc |-> e, events |-> events]

-----------------------------------------------------------------------------
(* str methods used on a ticker; a ticker is a str of character tokens *)

\* str.upper()
upper(t) ==
    LET lower_case == <<"a","b","c","d","e","f","g","h","i","j","k","l","m",
                        "n","o","p","q","r","s","t","u","v","w","x","y","z">>
        upper_case == <<"A","B","C","D","E","F","G","H","I","J","K","L","M",
                        "N","O","P","Q","R","S","T","U","V","W","X","Y","Z">>
        up(c) == IF \E i \in DOMAIN lower_case : lower_case[i] = c
                 THEN upper_case[CHOOSE i \in DOMAIN lower_case : lower_case[i] = c]
                 ELSE c
    IN  [i \in DOMAIN t |-> up(t[i])]

\* str.strip(): what lies between the first and the last character that is
\* not white space
strip(t) ==
    LET inked == {i \in DOMAIN t : t[i] # " "}
        first == CHOOSE i \in inked : \A j \in inked : i <= j
        last == CHOOSE i \in inked : \A j \in inked : j <= i
    IN  IF inked = {} THEN <<>> ELSE SubSeq(t, first, last)

\* str.endswith(suffix)
endswith(t, suffix) ==
    /\ Len(t) >= Len(suffix)
    /\ SubSeq(t, Len(t) - Len(suffix) + 1, Len(t)) = suffix

\* str.isdigit()
isdigit(t) ==
    /\ t # <<>>
    /\ \A i \in DOMAIN t : t[i] \in {"0","1","2","3","4","5","6","7","8","9"}

CnSuffixes == {<<".","S","Z">>, <<".","S","H">>, <<".","B","J">>}

\* re.sub(r'\.(SZ|SH|BJ)$', '', ticker)
sub_cn_suffix(t) ==
    IF \E x \in CnSuffixes : endswith(t, x) THEN SubSeq(t, 1, Len(t) - 3) ELSE t

-----------------------------------------------------------------------------
(* stock_analysis_engine.py: the engine loop *)

DATA_COLLECTION == "data_collection"
ANALYSTS == "analysts"
RESEARCH_DEBATE == "research_debate"
TRADE_DECISION == "trade_decision"
RISK_ASSESSMENT == "risk_assessment"

\* a mis-ordered phase list
phases_swapped ==
    <<DATA_COLLECTION, RESEARCH_DEBATE, ANALYSTS, TRADE_DECISION, RISK_ASSESSMENT>>

\* the list phases of analyze
phases ==
    <<DATA_COLLECTION, ANALYSTS, RESEARCH_DEBATE, TRADE_DECISION, RISK_ASSESSMENT>>

PhaseResult(ph, success, error, outs) ==
    [phase |-> ph, success |-> success, error |-> error, outputs |-> outs]

AnalysisResult(ticker, trade_date) ==
    [ticker |-> ticker, trade_date |-> trade_date, success |-> TRUE,
     final_decision |-> NoneV, phase_results |-> <<>>, error |-> NoneV]

\* _create_context; each context.set reads the clock once
create_context(ticker, trade_date, company_name, market_type, now) ==
    LET c0 == NewAnalysisContext(now)
        c1 == AnalysisContext_set(c0, CONTEXT, "ticker", ticker, "init", now + 1)
        c2 == AnalysisContext_set(c1, CONTEXT, "trade_date", trade_date, "init", now + 2)
        c3 == AnalysisContext_set(c2, CONTEXT, "market_type", market_type, "init", now + 3)
    IN  IF TruthyV(company_name)
        THEN AnalysisContext_set(c3, CONTEXT, "company_name", company_name, "init", now + 4)
        ELSE c3

create_context_reads(company_name) == IF TruthyV(company_name) THEN 5 ELSE 4

\* an engine whose _execute_phase lets the exception propagate
execute_phase_reraise(ph, e, outs) ==
    IF IsNone(e)
    THEN [propagated |-> FALSE, phase_result |-> PhaseResult(ph, TRUE, NoneV, outs)]
    ELSE [propagated |-> TRUE, phase_result |-> PhaseResult(ph, FALSE, e, EmptyDict)]

\* _execute_phase once executor.execute returned outs or raised e
execute_phase_result(ph, e, outs) ==
    IF IsNone(e)
    THEN [propagated |-> FALSE, phase_result |-> PhaseResult(ph, TRUE, NoneV, outs)]
    ELSE [propagated |-> FALSE, phase_result |-> PhaseResult(ph, FALSE, e, EmptyDict)]

\* an engine loop that goes on after a failed phase
loop_continues_never_breaks(phase_result) == FALSE

\* the break of the engine loop
loop_breaks(phase_result) == ~ phase_result.success

\* the processing of one phase_result by the loop of analyze; the error of
\* the result is a text made of the phase and of the error of the phase
loop_step(res, phase_result) ==
    LET r1 == [res EXCEPT !.phase_results = Append(@, phase_result)]
    IN  IF ~ phase_result.success
        THEN [r1 EXCEPT !.success = FALSE,
                        !.error = S(<<"phase", phase_result.phase, "failed:">>
                                    \o phase_result.error.str)]
        ELSE r1

\* a step 5 that reads the decision whatever the outcome of the loop
extract_final_decision_unconditionally(res, c) ==
    [res EXCEPT !.final_decision =
         AnalysisContext_get(c, DECISIONS, "final_decision", NoneV)]

\* step 5 of analyze
extract_final_decision(res, c) ==
    IF res.success
    THEN [res EXCEPT !.final_decision =
              AnalysisContext_get(c, DECISIONS, "final_decision", NoneV)]
    ELSE res

\* the first position of the main thread inside the executor of a phase
EntryPc(ph) ==
    CASE ph = DATA_COLLECTION -> "dc"
      [] ph = ANALYSTS -> "an"
      [] ph = RESEARCH_DEBATE -> "rd"
      [] ph = TRADE_DECISION -> "td"
      [] ph = RISK_ASSESSMENT -> "ra"

\* an executor registered with register_phase_executor whose execute raises
CustomError == S(<<"custom", "executor", "failed">>)

\* the final decision such an executor stores before it raises
CustomDecision == D([action |-> "SELL", source |-> "custom_executor"])

custom_execute(c, clk, writes) ==
    IF writes
    THEN [ctx |-> AnalysisContext_set(c, DECISIONS, "final_decision", CustomDecision,
                                      "custom_executor", clk + 1),
          clock |-> clk + 1]
    ELSE [ctx |-> c, clock |-> clk]

\* analyze up to the engine loop
Analyze ==
    /\ pc = "idle"
    /\ ctx' = create_context(cfg.ticker, cfg.trade_date, cfg.company_name,
                             cfg.market_type, clock + 2)
    /\ clock' = clock + 1 + create_context_reads(cfg.company_name)
    /\ access_log' = <<>>
    /\ result' = AnalysisResult(cfg.ticker, cfg.trade_date)
    /\ phase' = 1
    /\ pc' = "loop"
    /\ committed' = ctx'
    /\ UNCHANGED <<call, ncalls, ret, cfg, schema_vars, exc, phase_outputs, workers,
                   agent_state, invoked, raised, faults>>

\* _execute_phase up to the call of executor.execute
ExecutePhase ==
    /\ pc = "loop"
    /\ invoked' = Append(invoked, phases[phase])
    /\ phase_outputs' = EmptyDict
    /\ agent_state' = EmptyDict
    /\ IF phases[phase] \in cfg.custom
       THEN /\ LET r == custom_execute(ctx, clock + 1, cfg.custom_writes)
               IN  ctx' = r.ctx /\ clock' = r.clock
            /\ exc' = CustomError
            /\ raised' = Append(raised, <<phases[phase], CustomError>>)
            /\ pc' = "return"
       ELSE /\ ctx' = ctx
            /\ clock' = clock + 1
            /\ exc' = NoneV
            /\ raised' = raised
            /\ pc' = EntryPc(phases[phase])
    /\ UNCHANGED <<access_log, call, ncalls, ret, cfg, schema_vars, phase, result,
                   workers, faults, committed>>

\* _execute_phase from the return of executor.execute, and the loop body
PhaseReturn ==
    /\ pc = "return"
    /\ clock' = clock + 1
    /\ LET r == execute_phase_result(phases[phase], exc, phase_outputs)
       IN  IF r.propagated
           THEN /\ pc' = "crashed"
                /\ UNCHANGED <<result, phase, committed>>
           ELSE /\ result' = loop_step(result, r.phase_result)
                /\ IF loop_breaks(r.phase_result) \/ phase = Len(phases)
                   THEN pc' = "finish" /\ phase' = phase
                   ELSE pc' = "loop" /\ phase' = phase + 1
                /\ committed' = IF r.phase_result.success THEN ctx ELSE committed
    /\ exc' = NoneV
    /\ UNCHANGED <<ctx, access_log, call, ncalls, ret, cfg, schema_vars, phase_outputs,
                   workers, agent_state, invoked, raised, faults>>

\* analyze after the loop
Finish ==
    /\ pc = "finish"
    /\ result' = extract_final_decision(result, ctx)
    /\ clock' = clock + 1
    /\ pc' = "done"
    /\ UNCHANGED <<ctx, access_log, call, ncalls, ret, cfg, schema_vars, phase, exc,
                   phase_outputs, workers, agent_state, invoked, raised,
                   faults, committed>>

-----------------------------------------------------------------------------
(* phase_executors/data_collection.py *)

CN == <<"c","n">>

\* _detect_market_type
detect_market_type(ticker) ==
    IF ~ TruthyV(ticker) THEN S(CN)
    ELSE IF \E x \in CnSuffixes : endswith(upper(ticker.str), x) THEN S(CN)
    ELSE IF isdigit(ticker.str) /\ Len(ticker.str) = 6 THEN S(CN)
    ELSE IF endswith(upper(ticker.str), <<".","H","K">>) THEN S(<<"h","k">>)
    ELSE S(<<"u","s">>)

\* _normalize_ticker
normalize_ticker(ticker, market_type) ==
    IF ~ TruthyV(ticker) THEN ticker
    ELSE IF market_type = S(CN)
         THEN S(sub_cn_suffix(upper(strip(ticker.str))))
         ELSE S(upper(strip(ticker.str)))

TickerRequired == S(<<"ticker", "required">>)
TradeDateRequired == S(<<"trade_date", "required">>)

\* a check of the required arguments that lets an empty text pass
not_given_only_none(value) == IsNone(value)

\* `not ticker`, `not trade_date`: the argument is None or empty
not_given(value) == ~ TruthyV(value)

\* DataCollectionPhase.execute
data_collection(c, clk) ==
    LET ticker == AnalysisContext_get(c, CONTEXT, "ticker", NoneV)
        trade_date == AnalysisContext_get(c, CONTEXT, "trade_date", NoneV)
        company_name == AnalysisContext_get(c, CONTEXT, "company_name", NoneV)
        stored_market == AnalysisContext_get(c, CONTEXT, "market_type", NoneV)
        market_type == IF TruthyV(stored_market) THEN stored_market
                       ELSE detect_market_type(ticker)
        normalized == normalize_ticker(ticker, market_type)
        renamed == normalized # ticker
        c1 == IF renamed
              THEN AnalysisContext_set(c, CONTEXT, "ticker", normalized,
                                       "DataCollectionPhase", clk + 1)
              ELSE c
        clock1 == IF renamed THEN clk + 1 ELSE clk
        unset == ~ TruthyV(AnalysisContext_get(c1, CONTEXT, "market_type", NoneV))
        c2 == IF unset
              THEN AnalysisContext_set(c1, CONTEXT, "market_type", market_type,
                                       "DataCollectionPhase", clock1 + 1)
              ELSE c1
        clock2 == IF unset THEN clock1 + 1 ELSE clock1
    IN  IF not_given(ticker) THEN Executed(c, clk, EmptyDict, TickerRequired, {})
        ELSE IF not_given(trade_date)
             THEN Executed(c, clk, EmptyDict, TradeDateRequired, {})
        ELSE Executed(c2, clock2,
                      [ticker |-> normalized, trade_date |-> trade_date,
                       company_name |-> company_name,
                       market_type |-> market_type, initialized |-> TRUE],
                      NoneV, {})

-----------------------------------------------------------------------------
(* phase_executors/analysts.py *)

default_analysts ==
    <<"market_analyst", "news_analyst", "sentiment_analyst",
      "fundamentals_analyst", "sector_analyst", "index_analyst">>

\* a list value: selected_analysts is None or a list of analyst ids
List(elements) == [list |-> elements]

\* `if self.selected_analysts`: the selection is neither None nor empty
selection_truthy(selected) ==
    IF IsNone(selected) THEN FALSE ELSE selected.list # <<>>

\* _get_analysts_to_run
get_analysts_to_run(selected) ==
    IF selection_truthy(selected)
    THEN SelectSeq(selected.list, LAMBDA x : x \in Range(default_analysts))
    ELSE default_analysts

\* output_field_map of _run_stub_analyst
output_field_map(analyst_id) ==
    CASE analyst_id = "market_analyst" -> "market_report"
      [] analyst_id = "news_analyst" -> "news_report"
      [] analyst_id = "sentiment_analyst" -> "sentiment_report"
      [] analyst_id = "fundamentals_analyst" -> "fundamentals_report"
      [] analyst_id = "sector_analyst" -> "sector_report"
      [] analyst_id = "index_analyst" -> "index_report"
      [] OTHER -> None

\* str(v) of a str or of None, as word tokens
str_of(v) == IF IsNone(v) THEN <<"None">> ELSE v.str

\* the placeholder report of _run_stub_analyst
stub_report(analyst_id, ticker) ==
    S(<<"[", analyst_id, "]", "placeholder", "-">> \o str_of(ticker))

\* the report an agent returns
agent_report(analyst_id) == S(<<analyst_id, "analysis">>)

\* what one call of _run_single_analyst can do, before its context.set:
\*   stub      the stub analyst runs
\*   report    the agent returns a report under its output field
\*   noreport  the agent returns no report content
\*   nofield   the agent has no output field
\*   raise     the agent raises
AnalystOutcomes(c) ==
    IF c.use_stub THEN {"stub"} ELSE {"report", "noreport", "nofield", "raise"}

\* the future of one _run_single_analyst call: where it is, what it writes
\* and what it returns
WorkItem(at, outcome, value, t) ==
    [pc |-> at, outcome |-> outcome, value |-> value, t |-> t]

\* _run_single_analyst up to its context.set
analyst_called(c, analyst_id, outcome) ==
    CASE outcome = "stub" ->
            WorkItem("store", outcome,
                     stub_report(analyst_id,
                                 AnalysisContext_get(c, CONTEXT, "ticker", NoneV)), 0)
      [] outcome = "report" -> WorkItem("store", outcome, agent_report(analyst_id), 0)
      [] OTHER -> WorkItem("finished", outcome, NoneV, 0)

\* a collection that forgets the analysts that failed
collect_result_forgets_failed(outs, analyst_id, w) ==
    IF w.outcome = "raise"
    THEN outs
    ELSE LET o1 == [outs EXCEPT !.analysts_run = Append(@, analyst_id)]
             f == IF w.outcome = "nofield" THEN None ELSE output_field_map(analyst_id)
         IN  IF Truthy(f)
             THEN [o1 EXCEPT !.reports_generated = Append(@, f)]
             ELSE o1

\* the try/except around one analyst's result, in _run_sequential and
\* in _run_parallel
collect_result(outs, analyst_id, w) ==
    IF w.outcome = "raise"
    THEN [outs EXCEPT !.analysts_failed = Append(@, analyst_id)]
    ELSE LET o1 == [outs EXCEPT !.analysts_run = Append(@, analyst_id)]
             f == IF w.outcome = "nofield" THEN None ELSE output_field_map(analyst_id)
         IN  IF Truthy(f)
             THEN [o1 EXCEPT !.reports_generated = Append(@, f)]
             ELSE o1

\* AnalystsPhase.execute up to the choice of the runner
AnalystsBegin ==
    /\ pc = "an"
    /\ LET to_run == get_analysts_to_run(cfg.selected_analysts)
           parallel == cfg.max_workers > 1 /\ Len(to_run) > 1
       IN  /\ agent_state' = [analysts_to_run |-> to_run, parallel |-> parallel]
           /\ workers' = IF parallel THEN [a \in Range(to_run) |-> WorkItem("queued", "none", NoneV, 0)]
                         ELSE EmptyDict
           /\ pc' = IF parallel THEN "an_par"
                    ELSE IF to_run = <<>> THEN "return" ELSE "an_seq"
    /\ phase_outputs' =
           [ticker |-> AnalysisContext_get(ctx, CONTEXT, "ticker", NoneV),
            analysts_run |-> <<>>, analysts_failed |-> <<>>,
            reports_generated |-> <<>>]
    /\ UNCHANGED <<access_vars, cfg, schema_vars, phase, result, exc, invoked, raised,
                   faults, committed>>

\* the number of analysts _run_sequential has gone through
seq_done(outs) == Len(outs.analysts_run) + Len(outs.analysts_failed)

\* one turn of the loop of _run_sequential
RunSequential(outcome) ==
    /\ pc = "an_seq"
    /\ outcome \in AnalystOutcomes(cfg)
    /\ LET to_run == agent_state.analysts_to_run
           analyst_id == to_run[seq_done(phase_outputs) + 1]
           w == analyst_called(ctx, analyst_id, outcome)
           writes == w.pc = "store"
       IN  /\ ctx' = IF writes
                     THEN AnalysisContext_set(ctx, REPORTS, output_field_map(analyst_id),
                                              w.value, analyst_id, clock + 1)
                     ELSE ctx
           /\ clock' = IF writes THEN clock + 1 ELSE clock
           /\ phase_outputs' = collect_result(phase_outputs, analyst_id, w)
           /\ faults' = IF outcome = "raise"
                        THEN faults \cup {<<ANALYSTS, "agent_raised", analyst_id>>}
                        ELSE faults
           /\ pc' = IF seq_done(phase_outputs') >= Len(to_run) THEN "return" ELSE "an_seq"
    /\ UNCHANGED <<access_log, call, ncalls, ret, cfg, schema_vars, phase, result, exc,
                   workers, agent_state, invoked, raised, committed>>

\* the threads of the pool that are inside _run_single_analyst
Running(ws) == {a \in DOMAIN ws : ws[a].pc \notin {"queued", "finished", "collected"}}

\* the work queue of the pool is first in, first out
NextQueued(ws, to_run, a) ==
    /\ ws[a].pc = "queued"
    /\ \A i, j \in DOMAIN to_run :
           (to_run[j] = a /\ i < j) => ws[to_run[i]].pc # "queued"

\* a thread of the pool takes the next work item and runs
\* _run_single_analyst up to its context.set; what the agent will return does
\* not depend on the context, so it is drawn when the thread starts, and the
\* thread is at "store" for as long as the agent call lasts
WorkerStart(a, outcome) ==
    /\ a \in DOMAIN workers
    /\ NextQueued(workers, agent_state.analysts_to_run, a)
    /\ Cardinality(Running(workers)) < cfg.max_workers
    /\ outcome \in AnalystOutcomes(cfg)
    /\ workers' = [workers EXCEPT ![a] = analyst_called(ctx, a, outcome)]
    /\ faults' = IF outcome = "raise"
                 THEN faults \cup {<<ANALYSTS, "agent_raised", a>>}
                 ELSE faults
    /\ UNCHANGED <<access_vars, cfg, schema_vars, pc, phase, result, exc, phase_outputs,
                   agent_state, invoked, raised, committed>>

\* context.set in a thread of the pool: layer_data[field_name] = value
WorkerStore(a) ==
    /\ a \in DOMAIN workers
    /\ workers[a].pc = "store"
    /\ ctx' = set_store(ctx, REPORTS, output_field_map(a), workers[a].value)
    /\ workers' = [workers EXCEPT ![a].pc = "now"]
    /\ UNCHANGED <<access_log, clock, call, ncalls, ret, cfg, schema_vars, pc, phase, result,
                   exc, phase_outputs, agent_state, invoked, raised, faults,
                   committed>>

\* context.set in a thread of the pool: datetime.now()
WorkerNow(a) ==
    /\ a \in DOMAIN workers
    /\ workers[a].pc = "now"
    /\ clock' = clock + 1
    /\ workers' = [workers EXCEPT ![a].pc = "stamp", ![a].t = clock + 1]
    /\ UNCHANGED <<ctx, access_log, call, ncalls, ret, cfg, schema_vars, pc, phase, result,
                   exc, phase_outputs, agent_state, invoked, raised, faults,
                   committed>>

\* context.set in a thread of the pool: self.updated_at = ...
WorkerStamp(a) ==
    /\ a \in DOMAIN workers
    /\ workers[a].pc = "stamp"
    /\ ctx' = set_stamp(ctx, workers[a].t)
    /\ workers' = [workers EXCEPT ![a].pc = "lineage", ![a].t = 0]
    /\ UNCHANGED <<access_log, clock, call, ncalls, ret, cfg, schema_vars, pc, phase, result,
                   exc, phase_outputs, agent_state, invoked, raised, faults,
                   committed>>

\* context.set in a thread of the pool: self.data_lineage[...] = source
WorkerLineage(a) ==
    /\ a \in DOMAIN workers
    /\ workers[a].pc = "lineage"
    /\ ctx' = set_lineage(ctx, REPORTS, output_field_map(a), a)
    /\ workers' = [workers EXCEPT ![a].pc = "finished"]
    /\ UNCHANGED <<access_log, clock, call, ncalls, ret, cfg, schema_vars, pc, phase, result,
                   exc, phase_outputs, agent_state, invoked, raised, faults,
                   committed>>

\* one turn of the loop over as_completed(futures)
Collect(a) ==
    /\ pc = "an_par"
    /\ a \in DOMAIN workers
    /\ workers[a].pc = "finished"
    /\ phase_outputs' = collect_result(phase_outputs, a, workers[a])
    /\ workers' = [workers EXCEPT ![a].pc = "collected"]
    /\ UNCHANGED <<access_vars, cfg, schema_vars, pc, phase, result, exc, agent_state,
                   invoked, raised, faults, committed>>

\* a pool that does not wait for its futures
as_completed_does_not_wait(ws) == TRUE

\* as_completed has yielded every future and the with block has shut the
\* pool down
as_completed_exhausted(ws) == \A a \in DOMAIN ws : ws[a].pc = "collected"

\* _run_parallel returns
PoolJoin ==
    /\ pc = "an_par"
    /\ as_completed_exhausted(workers)
    /\ pc' = "return"
    /\ UNCHANGED <<access_vars, cfg, schema_vars, phase, result, exc, phase_outputs, workers,
                   agent_state, invoked, raised, faults, committed>>

-----------------------------------------------------------------------------
(* AnalystsPhase.execute on a context the engine created (SpecAnalysts) *)

Ticker000001 == S(<<"0","0","0","0","0","1">>)
TradeDate == S(<<"2024-01-15">>)

\* the arguments of analyze, of StockAnalysisEngine and of AnalystsPhase, the
\* executors registered with register_phase_executor that raise, whether
\* such an executor stores a final decision before it raises, and whether
\* the agents of the debate phases can be created
EngineConfig(ticker, trade_date, market_type, selected, max_workers, use_stub,
             custom, agents_available) ==
    [ticker |-> ticker, trade_date |-> trade_date, market_type |-> market_type,
     company_name |-> NoneV, selected_analysts |-> selected,
     max_workers |-> max_workers, use_stub |-> use_stub, custom |-> custom,
     custom_writes |-> FALSE, agents_available |-> agents_available]

\* max_workers of AnalystsPhase.__init__
DefaultMaxWorkers == 4

\* selections handed to AnalystsPhase as stubs: an empty list, a list of ids
\* that are not analysts of the phase, a list that mixes both kinds
Selections ==
    {<<>>, <<"macro_analyst">>, <<"macro_analyst", "news_analyst">>}

\* three analysts with real agents, in the pool and one after the other;
\* all six analysts as stubs, one after the other
AnalystsConfigs ==
    {EngineConfig(Ticker000001, TradeDate, S(CN),
                  List(<<"market_analyst", "news_analyst", "index_analyst">>), w, FALSE,
                  {}, TRUE)
       : w \in {1, DefaultMaxWorkers}}
    \cup
    {EngineConfig(Ticker000001, TradeDate, S(CN), NoneV, 1, TRUE, {}, TRUE)}
    \cup
    {EngineConfig(Ticker000001, TradeDate, S(CN), List(s), 1, TRUE, {}, TRUE)
       : s \in Selections}

InitAnalysts ==
    /\ cfg \in AnalystsConfigs
    /\ ctx = create_context(cfg.ticker, cfg.trade_date, cfg.company_name,
                            cfg.market_type, 0)
    /\ clock = create_context_reads(cfg.company_name)
    /\ access_log = <<>>
    /\ call = NoCall /\ ncalls = 0 /\ ret = EmptyDict
    /\ SchemaUnused
    /\ pc = "an"
    /\ phase = 2
    /\ result = AnalysisResult(cfg.ticker, cfg.trade_date)
    /\ exc = NoneV
    /\ phase_outputs = EmptyDict
    /\ workers = EmptyDict
    /\ agent_state = EmptyDict
    /\ invoked = <<ANALYSTS>>
    /\ raised = <<>>
    /\ faults = {}
    /\ committed = ctx

NextAnalysts ==
    \/ AnalystsBegin
    \/ \E outcome \in {"stub", "report", "noreport", "nofield", "raise"} :
           RunSequential(outcome)
    \/ \E a \in Range(default_analysts) : Collect(a)
    \/ PoolJoin
    \/ \E a \in Range(default_analysts) :
           \E outcome \in {"stub", "report", "noreport", "nofield", "raise"} :
               WorkerStart(a, outcome)
    \/ \E a \in Range(default_analysts) : WorkerStore(a)
    \/ \E a \in Range(default_analysts) : WorkerNow(a)
    \/ \E a \in Range(default_analysts) : WorkerStamp(a)
    \/ \E a \in Range(default_analysts) : WorkerLineage(a)

SpecAnalysts == InitAnalysts /\ [][NextAnalysts]_vars

-----------------------------------------------------------------------------
(* The thread pool of the Analysts phase with all six analysts (SpecPool) *)

PoolConfigs ==
    {EngineConfig(Ticker000001, TradeDate, S(CN), NoneV, DefaultMaxWorkers, TRUE, {}, TRUE)}

InitPool ==
    /\ cfg \in PoolConfigs
    /\ ctx = create_context(cfg.ticker, cfg.trade_date, cfg.company_name,
                            cfg.market_type, 0)
    /\ clock = create_context_reads(cfg.company_name)
    /\ access_log = <<>>
    /\ call = NoCall /\ ncalls = 0 /\ ret = EmptyDict
    /\ SchemaUnused
    /\ pc = "an"
    /\ phase = 2
    /\ result = AnalysisResult(cfg.ticker, cfg.trade_date)
    /\ exc = NoneV
    /\ phase_outputs = EmptyDict
    /\ workers = EmptyDict
    /\ agent_state = EmptyDict
    /\ invoked = <<ANALYSTS>>
    /\ raised = <<>>
    /\ faults = {}
    /\ committed = ctx

NextPool ==
    \/ AnalystsBegin
    \/ \E a \in Range(default_analysts) :
           \E outcome \in {"stub", "report", "noreport", "nofield", "raise"} :
               WorkerStart(a, outcome)
    \/ \E a \in Range(default_analysts) : WorkerStore(a)
    \/ \E a \in Range(default_analysts) : WorkerNow(a)
    \/ \E a \in Range(default_analysts) : WorkerStamp(a)
    \/ \E a \in Range(default_analysts) : WorkerLineage(a)
    \/ \E a \in Range(default_analysts) : Collect(a)
    \/ PoolJoin

SpecPool == InitPool /\ [][NextPool]_vars

-----------------------------------------------------------------------------
-----------------------------------------------------------------------------
(* analysis_context.py: the conversion to and from the flat legacy state *)

ReportFields ==
    {"market_report", "sentiment_report", "news_report", "fundamentals_report",
     "sector_report", "index_report"}

\* the keys of the dict to_legacy_state returns
LegacyKeys ==
    {"company_of_interest", "trade_date"} \cup ReportFields \cup
    {"investment_debate_state", "investment_plan", "trader_investment_plan",
     "risk_debate_state", "final_trade_decision"}

\* the field of the decisions layer that holds a legacy key
DecisionFieldOf(k) ==
    CASE k = "investment_debate_state" -> "investment_debate"
      [] k = "investment_plan" -> "investment_plan"
      [] k = "trader_investment_plan" -> "trade_signal"
      [] k = "risk_debate_state" -> "risk_assessment"
      [] k = "final_trade_decision" -> "final_decision"

\* the default of the .get of a legacy key: {} for the two debate states, ""
\* for every other key
LegacyDefault(k) ==
    IF k \in {"investment_debate_state", "risk_debate_state"}
    THEN D(EmptyDict) ELSE S(<<>>)

\* a to_legacy_state that reads the debate state under its legacy name
to_legacy_state_legacy_names(c) ==
    [k \in LegacyKeys |->
        CASE k = "company_of_interest" -> DictGet(c.context, "ticker", LegacyDefault(k))
          [] k = "trade_date" -> DictGet(c.context, "trade_date", LegacyDefault(k))
          [] k \in ReportFields -> DictGet(c.reports, k, LegacyDefault(k))
          [] OTHER -> DictGet(c.decisions, k, LegacyDefault(k))]

\* AnalysisContext.to_legacy_state
to_legacy_state(c) ==
    [k \in LegacyKeys |->
        CASE k = "company_of_interest" -> DictGet(c.context, "ticker", LegacyDefault(k))
          [] k = "trade_date" -> DictGet(c.context, "trade_date", LegacyDefault(k))
          [] k \in ReportFields -> DictGet(c.reports, k, LegacyDefault(k))
          [] OTHER -> DictGet(c.decisions, DecisionFieldOf(k), LegacyDefault(k))]

\* AnalysisContext.from_legacy_state: cls(), then the three layers are
\* replaced by dict literals; data_lineage stays empty
from_legacy_state(state, now) ==
    LET from(k) == DictGet(state, k, LegacyDefault(k))
    IN  [NewAnalysisContext(now) EXCEPT
            !.context = [f \in {"ticker", "trade_date"} |->
                            IF f = "ticker" THEN from("company_of_interest")
                            ELSE from("trade_date")],
            !.reports = [f \in ReportFields |-> from(f)],
            !.decisions =
                [f \in {"investment_debate", "investment_plan", "trade_signal",
                        "risk_assessment", "final_decision"} |->
                    CASE f = "investment_debate" -> from("investment_debate_state")
                      [] f = "investment_plan" -> from("investment_plan")
                      [] f = "trade_signal" -> from("trader_investment_plan")
                      [] f = "risk_assessment" -> from("risk_debate_state")
                      [] f = "final_decision" -> from("final_trade_decision")]]

-----------------------------------------------------------------------------
(* Legacy states converted to a context, written with set, converted back  *)
(* (SpecLegacy)                                                            *)

\* the value a legacy state holds under key k, in variant v
LegacyValue(k, v) ==
    CASE k \in {"investment_debate_state", "risk_debate_state"} ->
             D([history |-> S(<<k, "v1">>), count |-> N(100 * v)])
      [] k = "messages" -> S(<<"hello">>)
      [] k = "final_trade_decision" /\ v = 2 -> NoneV
      [] OTHER -> S(<<k, IF v = 1 THEN "v1" ELSE "v2">>)

\* the sets of keys of the legacy states: a full state, a full state with a
\* key the conversion does not know, the state a caller builds from a ticker,
\* a date and one report, and the empty state
LegacyKeySets ==
    { LegacyKeys,
      LegacyKeys \cup {"messages"},
      {"company_of_interest", "trade_date", "market_report"},
      {} }

LegacyStates ==
    {[k \in K |-> LegacyValue(k, v)] : K \in LegacyKeySets, v \in {1, 2}}

\* AnalysisContext.from_legacy_state(state)
CallFromLegacyState(state) ==
    /\ ncalls < MaxCalls
    /\ ctx' = from_legacy_state(state, clock + 1)
    /\ clock' = clock + 1
    /\ call' = [op |-> "from_legacy_state", state |-> state]
    /\ ncalls' = ncalls + 1
    /\ UNCHANGED <<access_log, ret, engine_vars, schema_vars>>

\* context.to_legacy_state()
CallToLegacyState ==
    /\ ncalls < MaxCalls
    /\ ret' = to_legacy_state(ctx)
    /\ call' = [op |-> "to_legacy_state"]
    /\ ncalls' = ncalls + 1
    /\ UNCHANGED <<ctx, access_log, clock, engine_vars, schema_vars>>

NextLegacy ==
    \/ \E state \in LegacyStates : CallFromLegacyState(state)
    \/ CallToLegacyState
    \/ \E layer \in DataLayer, field_name \in AccessFields, value \in AccessValues,
          source \in AccessSources : CallSet(layer, field_name, value, source)

SpecLegacy == InitAccess /\ [][NextLegacy]_vars

-----------------------------------------------------------------------------
(* Calls on one DataAccessManager, its log included (SpecManager) *)

\* DataAccessManager.get_access_log: the entries of one agent, or a copy of
\* the list when agent_id is None or empty
get_access_log(log, agent_id) ==
    IF Truthy(agent_id)
    THEN LET of_agent(entry) == entry.agent_id = agent_id
         IN  SelectSeq(log, of_agent)
    ELSE log

\* DataAccessManager.clear_access_log
clear_access_log(log) == <<>>

\* data_manager.get_access_log(agent_id)
CallGetAccessLog(agent_id) ==
    /\ ncalls < MaxCalls
    /\ ret' = get_access_log(access_log, agent_id)
    /\ call' = [op |-> "get_access_log", agent_id |-> agent_id]
    /\ ncalls' = ncalls + 1
    /\ UNCHANGED <<ctx, access_log, clock, engine_vars, schema_vars>>

\* data_manager.clear_access_log()
CallClearAccessLog ==
    /\ ncalls < MaxCalls
    /\ access_log' = clear_access_log(access_log)
    /\ call' = [op |-> "clear_access_log"]
    /\ ncalls' = ncalls + 1
    /\ UNCHANGED <<ctx, clock, ret, engine_vars, schema_vars>>

NextManager ==
    \/ NextAccess
    \/ \E agent_id \in AccessAgents \cup {None} : CallGetAccessLog(agent_id)
    \/ CallClearAccessLog

SpecManager == InitAccess /\ [][NextManager]_vars

-----------------------------------------------------------------------------
(* Mappings handed out by AnalysisContext.get_layer (SpecSnapshot) *)

\* A mapping object a caller holds: its content, and the layer of the context
\* whose dict it is (None for a dict of its own).

\* a copy that hands back the object it was asked to copy
dict_copy_same_object(obj) == obj

\* dict.copy(): a new dict with the same keys and values
dict_copy(obj) == [alias |-> None, data |-> obj.data]

\* AnalysisContext._get_layer_data: the dict of the layer itself
get_layer_data_object(c, layer) == [alias |-> layer, data |-> get_layer_data(c, layer)]

\* AnalysisContext.get_layer, as the object the caller receives
get_layer_object(c, layer) == dict_copy(get_layer_data_object(c, layer))

\* what a caller does to a mapping it holds
MappingChanges == {"add", "remove", "replace"}

\* d[key] = value for a new key, del d[key], d[key] = value for a key of d
changed_mapping(d, change, key, value) ==
    IF change = "remove" THEN [k \in DOMAIN d \ {key} |-> d[k]]
    ELSE DictSet(d, key, value)

\* context.get_layer(layer)
CallGetLayer(layer) ==
    /\ ncalls < MaxCalls
    /\ ret' = get_layer_object(ctx, layer)
    /\ call' = [op |-> "get_layer", layer |-> layer]
    /\ ncalls' = ncalls + 1
    /\ UNCHANGED <<ctx, access_log, clock, engine_vars, schema_vars>>

\* the caller changes the mapping get_layer returned: the change shows in
\* the context when the mapping is the dict of a layer
ChangeReturned(change, key, value) ==
    /\ call.op = "get_layer"
    /\ IF change = "add" THEN key \notin DOMAIN ret.data ELSE key \in DOMAIN ret.data
    /\ LET changed == changed_mapping(ret.data, change, key, value)
       IN  /\ ret' = [ret EXCEPT !.data = changed]
           /\ ctx' = IF ret.alias = None THEN ctx
                     ELSE [ctx EXCEPT ![ret.alias] = changed]
    /\ call' = [op |-> "change_returned", layer |-> call.layer, change |-> change,
                key |-> key, value |-> value]
    /\ UNCHANGED <<access_log, clock, ncalls, engine_vars, schema_vars>>

NextSnapshot ==
    \/ \E layer \in DataLayer, field_name \in AccessFields, value \in AccessValues,
          source \in AccessSources : CallSet(layer, field_name, value, source)
    \/ \E layer \in DataLayer : CallGetLayer(layer)
    \/ \E change \in MappingChanges, key \in AccessFields, value \in AccessValues :
          ChangeReturned(change, key, value)

SpecSnapshot == InitAccess /\ [][NextSnapshot]_vars

-----------------------------------------------------------------------------
(* data_schema.py: DynamicDataSchema *)

\* FieldDefinition
FieldDefinition(name, field_type, required, default, description, source) ==
    [name |-> name, field_type |-> field_type, required |-> required,
     default |-> default, description |-> description, source |-> source]

\* a core field: FieldDefinition(..., source="core")
CoreField(name, field_type, required, default, description) ==
    FieldDefinition(name, field_type, required, default, description, "core")

\* {name: definition} of a set of definitions
ByName(defs) == [n \in {d.name : d \in defs} |-> CHOOSE d \in defs : d.name = n]

\* _init_core_fields
init_core_fields ==
    [L \in DataLayer |->
        CASE L = CONTEXT -> ByName({
                 CoreField("ticker", "string", TRUE, None, "stock code"),
                 CoreField("trade_date", "string", TRUE, None, "analysis date"),
                 CoreField("market_type", "string", FALSE, "A_SHARE", "market type"),
                 CoreField("company_name", "string", FALSE, "", "company name"),
                 CoreField("currency", "string", FALSE, "CNY", "currency code")})
          [] L = DECISIONS -> ByName({
                 CoreField("investment_debate", "object", FALSE, None, "debate history"),
                 CoreField("investment_plan", "string", FALSE, None, "investment plan"),
                 CoreField("trade_signal", "object", FALSE, None, "trade signal"),
                 CoreField("risk_assessment", "object", FALSE, None, "risk assessment"),
                 CoreField("final_decision", "string", FALSE, None, "final decision")})
          [] OTHER -> EmptyDict]

\* {layer: {} for layer in DataLayer}
EmptyLayers == [L \in DataLayer |-> EmptyDict]

\* the content of the YAML file when there is none, when it cannot be read
\* or parsed, or when it has no "layers" key
NoConfig == [missing |-> TRUE]

\* the FieldDefinition _load_extend_schema builds from one field_config
extend_field(field_name, field_config) ==
    FieldDefinition(field_name,
                    DictGet(field_config, "type", "any"),
                    DictGet(field_config, "required", FALSE),
                    DictGet(field_config, "default", None),
                    DictGet(field_config, "description", ""),
                    DictGet(field_config, "source", "config"))

\* _load_extend_schema: the extension fields after the file is loaded; a
\* layer name that is no DataLayer is skipped, and so is a core field
load_extend_schema(core, extend, config) ==
    IF "layers" \notin DOMAIN config THEN extend
    ELSE [L \in DataLayer |->
            IF L \notin DOMAIN config.layers THEN extend[L]
            ELSE LET fields == DictGet(config.layers[L], "fields", EmptyDict)
                     loaded == {f \in DOMAIN fields : f \notin DOMAIN core[L]}
                 IN  DictUpdate(extend[L],
                                [f \in loaded |-> extend_field(f, fields[f])])]

\* DynamicDataSchema(): __init__
DynamicDataSchema(config) ==
    [core |-> init_core_fields,
     agent |-> EmptyLayers,
     extend |-> load_extend_schema(init_core_fields, EmptyLayers, config)]

\* the definition register_agent_fields stores for one field
agent_field(agent_id, field_name) ==
    FieldDefinition(field_name, "dynamic", FALSE, None, "by " \o agent_id, agent_id)

\* for field_name in access.fields of register_agent_fields
RECURSIVE register_fields(_, _, _, _, _)
register_fields(s, agent_id, layer, fields, i) ==
    IF i > Len(fields) THEN s
    ELSE register_fields(
            IF fields[i] \in DOMAIN s.core[layer] THEN s
            ELSE [s EXCEPT !.agent[layer] =
                      DictSet(@, fields[i], agent_field(agent_id, fields[i]))],
            agent_id, layer, fields, i + 1)

\* a registration that does not skip the core fields
RECURSIVE register_agent_fields_over_core(_, _, _, _)
register_agent_fields_over_core(s, agent_id, outputs, i) ==
    IF i > Len(outputs) THEN s
    ELSE register_agent_fields_over_core(
            [s EXCEPT !.agent[outputs[i].layer] =
                DictUpdate(@, [f \in Range(outputs[i].fields) |->
                                  agent_field(agent_id, f)])],
            agent_id, outputs, i + 1)

\* DynamicDataSchema.register_agent_fields(agent_id, outputs), from output i on
RECURSIVE register_agent_fields(_, _, _, _)
register_agent_fields(s, agent_id, outputs, i) ==
    IF i > Len(outputs) THEN s
    ELSE register_agent_fields(
            register_fields(s, agent_id, outputs[i].layer, outputs[i].fields, 1),
            agent_id, outputs, i + 1)

\* a merge in which the extension fields come last
get_all_fields_extend_last(s, layer) ==
    DictUpdate(DictUpdate(s.core[layer], s.agent[layer]), s.extend[layer])

\* DynamicDataSchema.get_all_fields
get_all_fields(s, layer) ==
    DictUpdate(DictUpdate(DictUpdate(EmptyDict, s.extend[layer]), s.agent[layer]),
               s.core[layer])

\* DynamicDataSchema.is_valid_field
is_valid_field(s, layer, field_name) == field_name \in DOMAIN get_all_fields(s, layer)

\* DynamicDataSchema.is_core_field
is_core_field(s, layer, field_name) == field_name \in DOMAIN s.core[layer]

\* DynamicDataSchema.reset_agent_fields
reset_agent_fields(s) == [s EXCEPT !.agent = EmptyLayers]

\* DynamicDataSchema.reload_extend_schema
reload_extend_schema(s, config) ==
    [s EXCEPT !.extend = load_extend_schema(s.core, EmptyLayers, config)]

-----------------------------------------------------------------------------
(* Calls on the schema singleton (SpecSchema) *)

\* a data_schema.yaml that names a core field, a new context field, a report
\* field and a layer that is no DataLayer
ConfigWithCoreName ==
    [layers |->
        [L \in {CONTEXT, REPORTS, "bogus"} |->
            CASE L = CONTEXT ->
                     [fields |->
                        [f \in {"ticker", "industry"} |->
                            IF f = "ticker"
                            THEN [type |-> "number", source |-> "config"]
                            ELSE [type |-> "string"]]]
              [] L = REPORTS ->
                     [fields |-> [f \in {"market_report"} |->
                                    [type |-> "string", description |-> "from yaml"]]]
              [] OTHER -> [fields |-> [f \in {"x"} |-> [type |-> "any"]]]]]

\* a data_schema.yaml with report fields of its own source, and a layer
\* without a "fields" key
ConfigReports ==
    [layers |->
        [L \in {REPORTS, DECISIONS} |->
            IF L = REPORTS
            THEN [fields |->
                    [f \in {"market_report", "summary"} |->
                        IF f = "market_report"
                        THEN [type |-> "text", source |-> "custom"]
                        ELSE [required |-> TRUE]]]
            ELSE [description |-> "no fields"]]]

SchemaConfigs == {NoConfig, ConfigWithCoreName, ConfigReports}

\* the outputs lists handed to register_agent_fields
SchemaOutputs ==
    { <<DataAccess(REPORTS, <<"market_report">>, TRUE)>>,
      <<DataAccess(CONTEXT, <<"ticker">>, TRUE)>>,
      <<DataAccess(CONTEXT, <<"ticker", "industry">>, TRUE),
        DataAccess(DECISIONS, <<"final_decision", "summary">>, TRUE)>>,
      <<DataAccess(REPORTS, <<"summary">>, TRUE),
        DataAccess(DECISIONS, <<"ticker">>, TRUE)>> }

SchemaAgents == {"market_analyst", "news_analyst"}

\* the context, the manager and the engine are not part of the schema
\* specifications
ContextUnused ==
    /\ ctx = EmptyDict /\ access_log = <<>> /\ clock = 0 /\ ret = EmptyDict
    /\ call = NoCall /\ ncalls = 0

InitSchema ==
    /\ \E config \in SchemaConfigs : schema = DynamicDataSchema(config)
    /\ registered_agents = EmptyDict
    /\ results = EmptyDict
    /\ ContextUnused
    /\ EngineUnused

\* data_schema.register_agent_fields(agent_id, outputs)
RegisterAgentFields(agent_id, outputs) ==
    /\ ncalls < MaxSchemaCalls
    /\ schema' = register_agent_fields(schema, agent_id, outputs, 1)
    /\ call' = [op |-> "register_agent_fields", agent_id |-> agent_id,
                outputs |-> outputs]
    /\ ncalls' = ncalls + 1
    /\ UNCHANGED <<ctx, access_log, clock, ret, engine_vars, registered_agents, results>>

\* data_schema.reset_agent_fields()
ResetAgentFields ==
    /\ ncalls < MaxSchemaCalls
    /\ schema' = reset_agent_fields(schema)
    /\ call' = [op |-> "reset_agent_fields"]
    /\ ncalls' = ncalls + 1
    /\ UNCHANGED <<ctx, access_log, clock, ret, engine_vars, registered_agents, results>>

\* data_schema.reload_extend_schema(config_path), the file holding config
ReloadExtendSchema(config) ==
    /\ ncalls < MaxSchemaCalls
    /\ schema' = reload_extend_schema(schema, config)
    /\ call' = [op |-> "reload_extend_schema", config |-> config]
    /\ ncalls' = ncalls + 1
    /\ UNCHANGED <<ctx, access_log, clock, ret, engine_vars, registered_agents, results>>

NextSchema ==
    \/ \E agent_id \in SchemaAgents, outputs \in SchemaOutputs :
          RegisterAgentFields(agent_id, outputs)
    \/ ResetAgentFields
    \/ \E config \in SchemaConfigs : ReloadExtendSchema(config)

SpecSchema == InitSchema /\ [][NextSchema]_vars

-----------------------------------------------------------------------------
(* contract_validator.py *)

\* ValidationError
ValidationError(agent_id, error_type, message, field_name, layer) ==
    [agent_id |-> agent_id, error_type |-> error_type, message |-> message,
     field_name |-> field_name, layer |-> layer]

\* ValidationResult(is_valid=...)
ValidationResult(is_valid) ==
    [is_valid |-> is_valid, errors |-> <<>>, warnings |-> <<>>]

\* an add_error that only appends
add_error_keeps_valid(vr, error) ==
    [vr EXCEPT !.errors = Append(@, error)]

\* ValidationResult.add_error
add_error(vr, error) ==
    [vr EXCEPT !.errors = Append(@, error), !.is_valid = FALSE]

\* ValidationResult.add_warning
add_warning(vr, warning) ==
    [vr EXCEPT !.warnings = Append(@, warning)]

\* result.add_error(e) for each e of a list, in order
RECURSIVE add_errors(_, _)
add_errors(vr, errors) ==
    IF errors = <<>> THEN vr
    ELSE add_errors(add_error(vr, Head(errors)), Tail(errors))

\* the elements of the lists of a list, in order
RECURSIVE Flatten(_)
Flatten(lists) ==
    IF lists = <<>> THEN <<>> ELSE Head(lists) \o Flatten(Tail(lists))

\* the errors the two nested loops of a _validate_ method add: one for each
\* field of each access for which failing(layer, field) holds
FieldErrors(agent_id, accesses, error_type, text, failing(_, _)) ==
    Flatten([i \in DOMAIN accesses |->
        Flatten([j \in DOMAIN accesses[i].fields |->
            IF failing(accesses[i].layer, accesses[i].fields[j])
            THEN <<ValidationError(agent_id, error_type,
                                   text \o lineage_key(accesses[i].layer,
                                                       accesses[i].fields[j]),
                                   accesses[i].fields[j], accesses[i].layer)>>
            ELSE <<>>])])

\* ContractValidator._validate_inputs
validate_inputs(s, contract, vr) ==
    LET failing(layer, f) == ~ is_valid_field(s, layer, f)
    IN  add_errors(vr, FieldErrors(contract.agent_id, contract.inputs,
                                       "invalid_input", "invalid input field: ",
                                       failing))

\* a _validate_outputs without the exemption of the Decisions layer
validate_outputs_no_exemption(s, contract, vr) ==
    LET failing(layer, f) == is_core_field(s, layer, f)
    IN  add_errors(vr, FieldErrors(contract.agent_id, contract.outputs,
                                       "core_conflict", "core field: ", failing))

\* ContractValidator._validate_outputs
validate_outputs(s, contract, vr) ==
    LET failing(layer, f) == is_core_field(s, layer, f) /\ layer # DECISIONS
    IN  add_errors(vr, FieldErrors(contract.agent_id, contract.outputs,
                                       "core_conflict", "core field: ", failing))

\* the elements of a set in the order its iteration gives them
ListOf(set) ==
    CHOOSE s \in [1 .. Cardinality(set) -> set] : Range(s) = set

\* f"...: {dep_id}"
missing_dependency_message(dep_id) == "agent not registered: " \o dep_id

\* ContractValidator._validate_dependencies
validate_dependencies(registered, contract, vr) ==
    LET deps == ListOf(contract.depends_on)
    IN  add_errors(vr,
           Flatten([i \in DOMAIN deps |->
               IF deps[i] \notin DOMAIN registered
               THEN <<ValidationError(contract.agent_id, "missing_dependency",
                                      missing_dependency_message(deps[i]),
                                      None, None)>>
               ELSE <<>>]))

\* ContractValidator.validate_contract
validate_contract(s, registered, contract, check_dependencies, strict_input_check) ==
    LET r0 == ValidationResult(TRUE)
        r1 == IF strict_input_check THEN validate_inputs(s, contract, r0) ELSE r0
        r2 == validate_outputs(s, contract, r1)
    IN  IF check_dependencies THEN validate_dependencies(registered, contract, r2)
        ELSE r2

\* ContractValidator.register_contract
register_contract(registered, contract) ==
    DictSet(registered, contract.agent_id, contract)

\* for contract in contracts: self.register_contract(contract)
RECURSIVE register_all(_, _)
register_all(registered, contracts) ==
    IF contracts = <<>> THEN registered
    ELSE register_all(register_contract(registered, Head(contracts)), Tail(contracts))

\* for contract in contracts: results[contract.agent_id] = validate_contract(...)
RECURSIVE validate_each(_, _, _, _, _)
validate_each(s, registered, contracts, check_dependencies, res) ==
    IF contracts = <<>> THEN res
    ELSE validate_each(s, registered, Tail(contracts), check_dependencies,
             DictSet(res, Head(contracts).agent_id,
                     validate_contract(s, registered, Head(contracts),
                                       check_dependencies, FALSE)))

\* a validate_all_contracts that registers each contract when it validates it
RECURSIVE validate_all_contracts_one_pass(_, _, _, _)
validate_all_contracts_one_pass(s, registered, contracts, check_dependencies) ==
    IF contracts = <<>>
    THEN [registered_agents |-> registered, results |-> EmptyDict]
    ELSE LET reg == register_contract(registered, Head(contracts))
             rest == validate_all_contracts_one_pass(s, reg, Tail(contracts),
                                                     check_dependencies)
         IN  [rest EXCEPT !.results =
                DictUpdate([a \in {Head(contracts).agent_id} |->
                               validate_contract(s, reg, Head(contracts),
                                                 check_dependencies, FALSE)],
                           @)]

\* ContractValidator.validate_all_contracts: the registered agents after the
\* call and the dict it returns
validate_all_contracts(s, registered, contracts, check_dependencies) ==
    LET reg == register_all(registered, contracts)
    IN  [registered_agents |-> reg,
         results |-> validate_each(s, reg, contracts, check_dependencies, EmptyDict)]

-----------------------------------------------------------------------------
(* Calls on one ContractValidator and on the results it returns           *)
(* (SpecValidator)                                                        *)

\* contracts/researchers.py: RESEARCH_MANAGER_CONTRACT
RESEARCH_MANAGER_CONTRACT ==
    ContractDependingOn("research_manager",
        << DataAccess(CONTEXT, <<"ticker", "company_name", "trade_date">>, TRUE),
           DataAccess(REPORTS, <<"bull_report", "bear_report">>, TRUE) >>,
        << DataAccess(DECISIONS, <<"investment_debate", "investment_plan">>, TRUE) >>,
        {"bull_researcher", "bear_researcher"})

\* contracts/traders.py: TRADER_CONTRACT
TRADER_CONTRACT ==
    ContractDependingOn("trader",
        << DataAccess(CONTEXT, <<"ticker", "company_name", "trade_date">>, TRUE),
           DataAccess(DECISIONS, <<"investment_plan">>, TRUE),
           DataAccess(ANALYSIS_DATA, <<"technical", "valuation">>, FALSE) >>,
        << DataAccess(DECISIONS, <<"trade_signal">>, TRUE) >>,
        {"research_manager"})

\* contracts/traders.py: NEUTRAL_RISK_CONTRACT
NEUTRAL_RISK_CONTRACT ==
    ContractDependingOn("neutral_risk",
        << DataAccess(CONTEXT, <<"ticker", "company_name", "trade_date">>, TRUE),
           DataAccess(DECISIONS, <<"trade_signal", "investment_plan">>, TRUE),
           DataAccess(ANALYSIS_DATA, <<"technical">>, FALSE) >>,
        << DataAccess(REPORTS, <<"neutral_risk_report">>, TRUE) >>,
        {"trader"})

\* a contract that declares core fields as outputs: context.ticker twice,
\* context.currency once, and the Decisions fields final_decision (core) and
\* ticker (a core name of another layer)
CORE_WRITER_CONTRACT ==
    ContractDependingOn("core_writer",
        << DataAccess(REPORTS, <<>>, TRUE),
           DataAccess(DECISIONS, <<"trade_signal", "industry">>, TRUE) >>,
        << DataAccess(CONTEXT, <<"ticker", "industry", "currency">>, TRUE),
           DataAccess(DECISIONS, <<"final_decision", "ticker">>, TRUE),
           DataAccess(CONTEXT, <<"ticker">>, TRUE) >>,
        {"trader"})

ValidatorContracts ==
    {RESEARCH_MANAGER_CONTRACT, TRADER_CONTRACT, NEUTRAL_RISK_CONTRACT,
     CORE_WRITER_CONTRACT}

\* the orderings of a list
Orderings(list) ==
    {[i \in DOMAIN list |-> list[p[i]]] :
        p \in {q \in [DOMAIN list -> DOMAIN list] : Range(q) = DOMAIN list}}

\* the lists handed to validate_all_contracts: contracts of distinct agents,
\* in every order
ContractLists ==
    Orderings(<<TRADER_CONTRACT, NEUTRAL_RISK_CONTRACT>>)
    \cup Orderings(<<RESEARCH_MANAGER_CONTRACT, TRADER_CONTRACT, CORE_WRITER_CONTRACT>>)

\* an error a caller adds to a result it holds
CallerError(agent_id) ==
    ValidationError(agent_id, "invalid_input", "added by the caller", None, None)

InitValidator ==
    /\ \E config \in {NoConfig, ConfigWithCoreName} : schema = DynamicDataSchema(config)
    /\ registered_agents = EmptyDict
    /\ results = EmptyDict
    /\ ContextUnused
    /\ EngineUnused

\* validator.register_contract(contract)
RegisterContract(contract) ==
    /\ ncalls < MaxSchemaCalls
    /\ registered_agents' = register_contract(registered_agents, contract)
    /\ call' = [op |-> "register_contract", contract |-> contract]
    /\ ncalls' = ncalls + 1
    /\ UNCHANGED <<ctx, access_log, clock, ret, engine_vars, schema, results>>

\* validator.validate_contract(contract, check_dependencies, strict_input_check)
ValidateContract(contract, check_dependencies, strict_input_check) ==
    /\ ncalls < MaxSchemaCalls
    /\ results' = [a \in {contract.agent_id} |->
                     validate_contract(schema, registered_agents, contract,
                                       check_dependencies, strict_input_check)]
    /\ call' = [op |-> "validate_contract", contract |-> contract,
                check_dependencies |-> check_dependencies,
                strict_input_check |-> strict_input_check]
    /\ ncalls' = ncalls + 1
    /\ UNCHANGED <<ctx, access_log, clock, ret, engine_vars, schema, registered_agents>>

\* validator.validate_all_contracts(contracts, check_dependencies)
ValidateAllContracts(contracts, check_dependencies) ==
    /\ ncalls < MaxSchemaCalls
    /\ LET r == validate_all_contracts(schema, registered_agents, contracts,
                                       check_dependencies)
       IN  /\ registered_agents' = r.registered_agents
           /\ results' = r.results
    /\ call' = [op |-> "validate_all_contracts", contracts |-> contracts,
                check_dependencies |-> check_dependencies]
    /\ ncalls' = ncalls + 1
    /\ UNCHANGED <<ctx, access_log, clock, ret, engine_vars, schema>>

\* results[agent_id].add_error(error)
AddError(agent_id) ==
    /\ ncalls < MaxSchemaCalls
    /\ agent_id \in DOMAIN results
    /\ results' = [results EXCEPT ![agent_id] = add_error(@, CallerError(agent_id))]
    /\ call' = [op |-> "add_error", agent_id |-> agent_id]
    /\ ncalls' = ncalls + 1
    /\ UNCHANGED <<ctx, access_log, clock, ret, engine_vars, schema, registered_agents>>

\* results[agent_id].add_warning(warning)
AddWarning(agent_id) ==
    /\ ncalls < MaxSchemaCalls
    /\ agent_id \in DOMAIN results
    /\ results' = [results EXCEPT ![agent_id] = add_warning(@, "a warning")]
    /\ call' = [op |-> "add_warning", agent_id |-> agent_id]
    /\ ncalls' = ncalls + 1
    /\ UNCHANGED <<ctx, access_log, clock, ret, engine_vars, schema, registered_agents>>

NextValidator ==
    \/ \E contract \in ValidatorContracts : RegisterContract(contract)
    \/ \E contract \in ValidatorContracts, check_dependencies \in BOOLEAN,
          strict_input_check \in BOOLEAN :
          ValidateContract(contract, check_dependencies, strict_input_check)
    \/ \E contracts \in ContractLists, check_dependencies \in BOOLEAN :
          ValidateAllContracts(contracts, check_dependencies)
    \/ \E agent_id \in DOMAIN results : AddError(agent_id)
    \/ \E agent_id \in DOMAIN results : AddWarning(agent_id)

SpecValidator == InitValidator /\ [][NextValidator]_vars

(* Agents of the debate phases *)

\* What a call of a debate-phase agent can do:
\*   unavailable  the agent could not be created; the executor's own fallback runs
\*   ok           the agent returns a well-formed result
\*   raise        the agent raises
\*   malformed    the agent returns a result whose debate state is None
\*   bad_plan     the agent returns a result whose plan text is None
AgentError == S(<<"agent", "failed">>)
NoneTypeHasNoGet == S(<<"NoneType", "has", "no", "attribute", "get">>)
NoneTypeHasNoLen == S(<<"NoneType", "has", "no", "len">>)
StrHasNoGet == S(<<"str", "has", "no", "attribute", "get">>)

AgentEvent(ph, agent_id, outcome) ==
    IF outcome = "raise" THEN {<<ph, "agent_raised", agent_id>>}
    ELSE IF outcome \in {"malformed", "bad_plan"} THEN {<<ph, "malformed", agent_id>>}
    ELSE {}

\* "generated" if text else None
generated(v) == IF TruthyV(v) THEN S(<<"generated">>) ELSE NoneV

\* a + b for str values
Concat(a, b) == S(a.str \o b.str)

-----------------------------------------------------------------------------
(* phase_executors/research_debate.py *)

\* debate_rounds passed by _create_phase_executor
DebateRounds == 1

report_fields ==
    <<"market_report", "news_report", "sentiment_report",
      "fundamentals_report", "sector_report", "index_report">>

\* _collect_analyst_reports
collect_analyst_reports(c) ==
    LET present == {f \in Range(report_fields) :
                        TruthyV(AnalysisContext_get(c, REPORTS, f, NoneV))}
    IN  [f \in present |-> AnalysisContext_get(c, REPORTS, f, NoneV)]

Empty == S(<<>>)

\* ResearchDebatePhase._build_initial_state
rd_build_initial_state(c, analyst_reports) ==
    LET base == [company_of_interest |->
                     OrElse(AnalysisContext_get(c, CONTEXT, "ticker", NoneV), Empty),
                 trade_date |->
                     OrElse(AnalysisContext_get(c, CONTEXT, "trade_date", NoneV), Empty),
                 investment_debate_state |->
                     D([history |-> Empty, bull_history |-> Empty,
                        bear_history |-> Empty, current_response |-> Empty,
                        count |-> N(0), judge_decision |-> Empty])]
    IN  DictUpdate(base, analyst_reports)

\* the plan the research manager returns
ManagerPlan == S(<<"buy", "plan">>)

\* the investment_debate_state a researcher returns
researcher_result(ids, own_history, argument) ==
    D([ids.dict EXCEPT !.history = Concat(@, argument),
                       ![own_history] = Concat(@, argument),
                       !.current_response = argument,
                       !.count = N(@.num + 100)])

\* the stub branch of _run_bull_researcher and _run_bear_researcher
researcher_stub(ids, own_history, text) ==
    D([ids.dict EXCEPT ![own_history] = text, !.count = N(@.num + 100)])

\* a researcher helper that lets the exception of its agent escape
run_researcher_reraises(st, own_history, argument, stub_text, outcome) ==
    LET ids == st["investment_debate_state"]
    IN  CASE outcome = "unavailable" ->
                Step(DictSet(st, "investment_debate_state",
                             researcher_stub(ids, own_history, stub_text)), NoneV, {})
          [] outcome = "ok" ->
                Step(DictSet(st, "investment_debate_state",
                             researcher_result(ids, own_history, argument)), NoneV, {})
          [] outcome = "malformed" ->
                Step(DictSet(st, "investment_debate_state", NoneV), NoneV, {})
          [] OTHER -> Step(st, AgentError, {})

\* _run_bull_researcher and _run_bear_researcher, which differ in the agent
\* and in the history they fill
run_researcher(st, own_history, argument, stub_text, outcome) ==
    LET ids == st["investment_debate_state"]
    IN  CASE outcome = "unavailable" ->
                Step(DictSet(st, "investment_debate_state",
                             researcher_stub(ids, own_history, stub_text)), NoneV, {})
          [] outcome = "ok" ->
                Step(DictSet(st, "investment_debate_state",
                             researcher_result(ids, own_history, argument)), NoneV, {})
          [] outcome = "malformed" ->
                Step(DictSet(st, "investment_debate_state", NoneV), NoneV, {})
          [] OTHER -> Step(st, NoneV, {})

run_bull_researcher(st, outcome) ==
    run_researcher(st, "bull_history", S(<<"Bull:", "growth">>),
                   S(<<"[stub]", "bull", "report">>), outcome)

run_bear_researcher(st, outcome) ==
    run_researcher(st, "bear_history", S(<<"Bear:", "debt">>),
                   S(<<"[stub]", "bear", "report">>), outcome)

\* _run_research_manager
run_research_manager(st, outcome) ==
    LET ids == st["investment_debate_state"]
    IN  CASE outcome = "unavailable" ->
                Step(DictSet(st, "investment_plan", S(<<"[stub]", "investment", "plan">>)),
                     NoneV, {})
          [] outcome = "ok" ->
                Step(DictSet(DictSet(st, "investment_debate_state",
                                     D([ids.dict EXCEPT
                                            !.judge_decision = S(<<"Judge:", "buy">>)])),
                             "investment_plan", ManagerPlan), NoneV, {})
          [] outcome = "malformed" ->
                Step(DictSet(DictSet(st, "investment_debate_state", NoneV),
                             "investment_plan", ManagerPlan), NoneV, {})
          [] outcome = "bad_plan" ->
                Step(DictSet(st, "investment_plan", NoneV), NoneV, {})
          [] OTHER ->
                Step(DictSet(st, "investment_plan",
                             S(<<"[error]", "investment", "plan", "failed">>)), NoneV, {})

\* steps 4 and 5 of ResearchDebatePhase.execute
rd_summarise(c, clk, ticker, st0, om, events) ==
    LET m == run_research_manager(st0, om)
        ev == events \cup AgentEvent(RESEARCH_DEBATE, "research_manager", om)
        st == m.state
        ids == st["investment_debate_state"]
        investment_plan == DictGet(st, "investment_plan", Empty)
        bull_history == DictGet(ids.dict, "bull_history", Empty)
        bear_history == DictGet(ids.dict, "bear_history", Empty)
        c1 == AnalysisContext_set(c, REPORTS, "bull_report", bull_history,
                                  "bull_researcher", clk + 1)
        c2 == AnalysisContext_set(c1, REPORTS, "bear_report", bear_history,
                                  "bear_researcher", clk + 2)
        c3 == AnalysisContext_set(c2, DECISIONS, "investment_plan", investment_plan,
                                  "research_manager", clk + 3)
        c4 == AnalysisContext_set(c3, DECISIONS, "investment_debate_state", ids,
                                  "research_debate", clk + 4)
        outs == [ticker |-> ticker, debate_rounds |-> DebateRounds,
                 bull_report |-> generated(bull_history),
                 bear_report |-> generated(bear_history),
                 investment_plan |-> generated(investment_plan)]
    IN  IF ~ IsNone(m.exc) THEN Executed(c, clk, EmptyDict, m.exc, ev)
        ELSE IF IsNone(ids) THEN Executed(c, clk, EmptyDict, NoneTypeHasNoGet, ev)
        ELSE IF IsNone(investment_plan)
             THEN Executed(c4, clk + 4, EmptyDict, NoneTypeHasNoLen, ev)
        ELSE Executed(c4, clk + 4, outs, NoneV, ev)

\* ResearchDebatePhase.execute with one debate round
research_debate(c, clk, ob, oe, om) ==
    LET ticker == AnalysisContext_get(c, CONTEXT, "ticker", NoneV)
        st0 == rd_build_initial_state(c, collect_analyst_reports(c))
        b == run_bull_researcher(st0, ob)
        evb == AgentEvent(RESEARCH_DEBATE, "bull_researcher", ob)
        e == run_bear_researcher(b.state, oe)
        eve == evb \cup AgentEvent(RESEARCH_DEBATE, "bear_researcher", oe)
    IN  IF ~ IsNone(b.exc) THEN Executed(c, clk, EmptyDict, b.exc, evb)
        ELSE IF IsNone(b.state["investment_debate_state"])
             THEN Executed(c, clk, EmptyDict, NoneTypeHasNoGet, evb)
        ELSE IF ~ IsNone(e.exc) THEN Executed(c, clk, EmptyDict, e.exc, eve)
        ELSE IF IsNone(e.state["investment_debate_state"])
             THEN Executed(c, clk, EmptyDict, NoneTypeHasNoGet, eve)
        ELSE rd_summarise(c, clk, ticker, e.state, om, eve)

\* the outcomes of the agents of the debate phases
AgentOutcomes(c, extra) ==
    IF c.agents_available THEN {"ok", "raise"} \cup extra ELSE {"unavailable"}

\* an executor returns or raises
ExecutorDone(r) ==
    /\ ctx' = r.ctx
    /\ clock' = r.clock
    /\ phase_outputs' = r.outputs
    /\ exc' = r.exc
    /\ raised' = IF IsNone(r.exc) THEN raised
                 ELSE Append(raised, <<phases[phase], r.exc>>)
    /\ faults' = faults \cup r.events
    /\ pc' = "return"
    /\ UNCHANGED <<access_log, call, ncalls, ret, cfg, schema_vars, phase, result, workers,
                   agent_state, invoked, committed>>

\* DataCollectionPhase.execute
DataCollectionExecute ==
    /\ pc = "dc"
    /\ ExecutorDone(data_collection(ctx, clock))

\* ResearchDebatePhase.execute
ResearchDebateExecute(ob, oe, om) ==
    /\ pc = "rd"
    /\ ob \in AgentOutcomes(cfg, {"malformed"})
    /\ oe \in AgentOutcomes(cfg, {"malformed"})
    /\ om \in AgentOutcomes(cfg, {"malformed", "bad_plan"})
    /\ ExecutorDone(research_debate(ctx, clock, ob, oe, om))

-----------------------------------------------------------------------------
(* phase_executors/trade_decision.py *)

\* Texts are sequences of word tokens.  The Chinese keywords of the source
\* are written in pinyin: mairu, zengchi, kanduo, jianyi-mairu, kanzhang,
\* maichu, jianchi, kankong, jianyi-maichu, kandie, chiyou, guanwang,
\* zhongxing.
td_buy_keywords ==
    <<"mairu", "zengchi", "kanduo", "jianyi-mairu", "buy", "bullish", "kanzhang">>

td_sell_keywords ==
    <<"maichu", "jianchi", "kankong", "jianyi-maichu", "sell", "bearish", "kandie">>

hold_keywords == <<"chiyou", "guanwang", "hold", "neutral", "zhongxing">>

\* text.lower(), for the words of the model
lower(t) ==
    LET word(w) == CASE w \in {"BUY", "Buy"} -> "buy"
                     [] w \in {"SELL", "Sell"} -> "sell"
                     [] w \in {"HOLD", "Hold"} -> "hold"
                     [] OTHER -> w
    IN  [i \in DOMAIN t |-> word(t[i])]

\* kw in text, for the words of the model: a word holds a keyword when it is
\* the keyword or a longer keyword that ends with it
text_contains(t, kw) ==
    \E i \in DOMAIN t :
        \/ t[i] = kw
        \/ t[i] = "jianyi-mairu" /\ kw = "mairu"
        \/ t[i] = "jianyi-maichu" /\ kw = "maichu"

\* sum(1 for kw in keywords if kw in text)
keyword_score(t, keywords) ==
    Cardinality({i \in DOMAIN keywords : text_contains(t, keywords[i])})

Min(a, b) == IF a < b THEN a ELSE b

\* a choice that gives a tie between the buy score and another score to buy
recommend_ties_to_buy(buy_score, sell_score, hold_score) ==
    IF buy_score > 0 /\ buy_score >= sell_score /\ buy_score >= hold_score
    THEN [recommendation |-> "buy", confidence |-> Min(50 + buy_score * 10, 90)]
    ELSE IF sell_score > buy_score /\ sell_score > hold_score
    THEN [recommendation |-> "sell", confidence |-> Min(50 + sell_score * 10, 90)]
    ELSE [recommendation |-> "hold", confidence |-> 50]

\* the choice between buy, sell and hold by keyword scores; numbers are in
\* hundredths
recommend(buy_score, sell_score, hold_score) ==
    IF buy_score > sell_score /\ buy_score > hold_score
    THEN [recommendation |-> "buy", confidence |-> Min(50 + buy_score * 10, 90)]
    ELSE IF sell_score > buy_score /\ sell_score > hold_score
    THEN [recommendation |-> "sell", confidence |-> Min(50 + sell_score * 10, 90)]
    ELSE [recommendation |-> "hold", confidence |-> 50]

\* _parse_recommendation_from_text
parse_recommendation_from_text(t) ==
    recommend(keyword_score(lower(t), td_buy_keywords),
              keyword_score(lower(t), td_sell_keywords),
              keyword_score(lower(t), hold_keywords))

\* action_map.get(recommendation.lower(), "HOLD")
action_map(recommendation) ==
    CASE recommendation = "buy" -> "BUY"
      [] recommendation = "sell" -> "SELL"
      [] OTHER -> "HOLD"

\* text[:n] if len(text) > n else text
truncate(t, n) == IF Len(t) > n THEN SubSeq(t, 1, n) ELSE t

RationaleLimit == 500

TradeSignal(ticker, rec, rationale) ==
    LET action == action_map(rec.recommendation)
    IN  D([ticker |-> ticker,
           action |-> S(<<action>>),
           position_size |-> IF action = "HOLD" THEN N(0)
                             ELSE N(Min(rec.confidence, 100)),
           confidence |-> N(rec.confidence),
           rationale |-> rationale,
           entry_price |-> NoneV, stop_loss |-> NoneV, take_profit |-> NoneV,
           timestamp |-> NoneV])

\* _parse_trade_signal, for a trader_plan that is a str
parse_trade_signal(c, trader_plan, investment_plan) ==
    LET combined == IF IsStr(investment_plan)
                    THEN investment_plan.str \o <<"\n">> \o trader_plan.str
                    ELSE trader_plan.str
    IN  TradeSignal(AnalysisContext_get(c, CONTEXT, "ticker", NoneV),
                    parse_recommendation_from_text(combined),
                    S(truncate(trader_plan.str, RationaleLimit)))

NoneTypeHasNoLower == S(<<"NoneType", "has", "no", "attribute", "lower">>)
MinNotSupported == S(<<"<", "not", "supported", "between", "float", "and", "that", "type">>)

\* the three values _generate_trade_signal takes from a structured plan
plan_recommendation(investment_plan) ==
    DictGet(investment_plan.dict, "recommendation", S(<<"hold">>))

plan_confidence(investment_plan) ==
    DictGet(investment_plan.dict, "confidence", N(50))

plan_rationale(investment_plan) ==
    DictGet(investment_plan.dict, "rationale", Empty)

\* action_map.get(recommendation.lower(), "HOLD") for a recommendation that
\* is a str
plan_action(recommendation) ==
    LET words == lower(recommendation.str)
    IN  action_map(IF Len(words) = 1 THEN words[1] ELSE "")

\* the signal _generate_trade_signal returns for a structured plan (a dict):
\* the confidence of the plan as it is, min(confidence, 1.0) as position size
structured_signal(ticker, investment_plan) ==
    LET action == plan_action(plan_recommendation(investment_plan))
        confidence == plan_confidence(investment_plan)
    IN  D([ticker |-> ticker,
           action |-> S(<<action>>),
           position_size |-> IF action = "HOLD" THEN N(0)
                             ELSE N(Min(confidence.num, 100)),
           confidence |-> confidence,
           rationale |-> plan_rationale(investment_plan),
           entry_price |-> NoneV, stop_loss |-> NoneV, take_profit |-> NoneV,
           timestamp |-> NoneV])

\* the exception _generate_trade_signal raises, NoneV when it returns:
\* recommendation.lower() of a recommendation that is not a str, min() of a
\* confidence that is not a number
generate_trade_signal_error(investment_plan) ==
    IF ~ IsDict(investment_plan) THEN NoneV
    ELSE IF ~ IsStr(plan_recommendation(investment_plan)) THEN NoneTypeHasNoLower
    ELSE IF /\ plan_action(plan_recommendation(investment_plan)) # "HOLD"
            /\ ~ IsNum(plan_confidence(investment_plan))
         THEN MinNotSupported
    ELSE NoneV

\* _generate_trade_signal when it returns
generate_trade_signal(c, investment_plan) ==
    IF IsDict(investment_plan)
    THEN structured_signal(AnalysisContext_get(c, CONTEXT, "ticker", NoneV),
                           investment_plan)
    ELSE TradeSignal(AnalysisContext_get(c, CONTEXT, "ticker", NoneV),
                     IF IsStr(investment_plan)
                     THEN parse_recommendation_from_text(investment_plan.str)
                     ELSE [recommendation |-> "hold", confidence |-> 50],
                     IF IsStr(investment_plan)
                     THEN S(truncate(investment_plan.str, RationaleLimit))
                     ELSE Empty)

TraderPlan == S(<<"Buy", "at", "open">>)

\* _run_trader: the result of the trader, None when it is unavailable or raises
run_trader(outcome) ==
    CASE outcome = "ok" -> D([trader_investment_plan |-> TraderPlan])
      [] outcome = "bad_plan" -> D([trader_investment_plan |-> NoneV])
      [] outcome = "malformed" -> S(<<"not", "a", "dict">>)
      [] OTHER -> NoneV

\* TradeDecisionPhase.execute
trade_decision(c, clk, ot) ==
    LET ticker == AnalysisContext_get(c, CONTEXT, "ticker", NoneV)
        investment_plan == AnalysisContext_get(c, DECISIONS, "investment_plan", NoneV)
        skipped == [ticker |-> ticker, trade_signal |-> NoneV,
                    trader_investment_plan |-> NoneV]
        trader_result == run_trader(ot)
        ev == AgentEvent(TRADE_DECISION, "trader", ot)
        trader_plan == DictGet(trader_result.dict, "trader_investment_plan", Empty)
        c1 == AnalysisContext_set(c, DECISIONS, "trader_investment_plan", trader_plan,
                                  "trader", clk + 1)
        parsed == parse_trade_signal(c1, trader_plan, investment_plan)
        c2 == AnalysisContext_set(c1, DECISIONS, "trade_signal", parsed,
                                  "trader", clk + 2)
        fallback == generate_trade_signal(c, investment_plan)
        c3 == AnalysisContext_set(c, DECISIONS, "trade_signal", fallback,
                                  "trader", clk + 1)
    IN  IF IsNone(investment_plan) THEN Executed(c, clk, skipped, NoneV, {})
        ELSE IF ~ TruthyV(trader_result) /\ ~ IsNone(generate_trade_signal_error(investment_plan))
             THEN Executed(c, clk, EmptyDict,
                           generate_trade_signal_error(investment_plan), ev)
        ELSE IF ~ TruthyV(trader_result)
             THEN Executed(c3, clk + 1,
                           [ticker |-> ticker, trade_signal |-> fallback.dict.action,
                            trader_investment_plan |-> NoneV], NoneV, ev)
        ELSE IF ~ IsDict(trader_result)
             THEN Executed(c, clk, EmptyDict, StrHasNoGet, ev)
        ELSE IF IsNone(trader_plan)
             THEN Executed(c1, clk + 1, EmptyDict, NoneTypeHasNoLen, ev)
        ELSE Executed(c2, clk + 2,
                      [ticker |-> ticker, trade_signal |-> parsed.dict.action,
                       trader_investment_plan |-> generated(trader_plan)], NoneV, ev)

\* TradeDecisionPhase.execute
TradeDecisionExecute(ot) ==
    /\ pc = "td"
    /\ ot \in AgentOutcomes(cfg, {"malformed", "bad_plan"})
    /\ ExecutorDone(trade_decision(ctx, clock, ot))

-----------------------------------------------------------------------------
(* phase_executors/risk_assessment.py *)

risk_profiles == <<"risky", "safe", "neutral">>

\* RiskAssessmentPhase._build_initial_state
ra_build_initial_state(c, trader_plan) ==
    LET report(f) == OrElse(AnalysisContext_get(c, REPORTS, f, NoneV), Empty)
    IN  [company_of_interest |->
             OrElse(AnalysisContext_get(c, CONTEXT, "ticker", NoneV), Empty),
         trade_date |->
             OrElse(AnalysisContext_get(c, CONTEXT, "trade_date", NoneV), Empty),
         trader_investment_plan |-> trader_plan,
         investment_plan |->
             OrElse(AnalysisContext_get(c, DECISIONS, "investment_plan", NoneV), Empty),
         market_report |-> report("market_report"),
         sentiment_report |-> report("sentiment_report"),
         news_report |-> report("news_report"),
         fundamentals_report |-> report("fundamentals_report"),
         risk_debate_state |->
             D([history |-> Empty, risky_history |-> Empty, safe_history |-> Empty,
                neutral_history |-> Empty, current_risky_response |-> Empty,
                current_safe_response |-> Empty, current_neutral_response |-> Empty,
                count |-> N(0), judge_decision |-> Empty])]

\* the decision the risk manager returns
RiskJudgeDecision == S(<<"Risk:", "high risk", "hold">>)

\* the risk_debate_state a debator returns
debator_result(rds, profile) ==
    LET argument == S(<<profile, "view">>)
    IN  D([rds.dict EXCEPT !.history = Concat(@, argument),
                           ![profile \o "_history"] = Concat(@, argument),
                           !["current_" \o profile \o "_response"] = argument,
                           !.count = N(@.num + 100)])

\* _run_risky_analyst, _run_safe_analyst and _run_neutral_analyst, which
\* differ in the agent they call
run_risk_analyst(st, profile, outcome) ==
    IF outcome = "ok"
    THEN Step([st EXCEPT !.risk_debate_state = debator_result(@, profile)], NoneV, {})
    ELSE Step(st, NoneV, {})

\* _run_risk_manager
run_risk_manager(st, outcome) ==
    CASE outcome = "ok" ->
            Step(DictSet([st EXCEPT !.risk_debate_state =
                              D([@.dict EXCEPT !.judge_decision = RiskJudgeDecision])],
                         "final_trade_decision", RiskJudgeDecision), NoneV, {})
      [] outcome = "raise" ->
            Step(DictSet(st, "final_trade_decision",
                         S(<<"[error]", "risk", "decision", "failed">>)), NoneV, {})
      [] OTHER -> Step(st, NoneV, {})

\* one section of the final trade decision text
section(title, text) == IF TruthyV(text) THEN <<<<title>> \o text.str>> ELSE <<>>

RECURSIVE join(_, _)
\* sep.join(sections)
join(sep, sections) ==
    IF sections = <<>> THEN <<>>
    ELSE IF Len(sections) = 1 THEN sections[1]
    ELSE sections[1] \o sep \o join(sep, Tail(sections))

\* _generate_final_trade_decision
generate_final_trade_decision(c) ==
    LET investment_plan ==
            OrElse(AnalysisContext_get(c, DECISIONS, "investment_plan", NoneV), Empty)
        trader_plan ==
            OrElse(AnalysisContext_get(c, DECISIONS, "trader_investment_plan", NoneV), Empty)
        risk_debate_state ==
            OrElse(AnalysisContext_get(c, DECISIONS, "risk_debate_state", NoneV),
                   D(EmptyDict))
        risk_text == IF IsDict(risk_debate_state)
                     THEN DictGet(risk_debate_state.dict, "judge_decision", Empty)
                     ELSE Empty
    IN  S(join(<<"\n\n">>,
               section("## investment plan", investment_plan)
               \o section("## trade plan", trader_plan)
               \o section("## risk assessment", risk_text)))

ra_buy_keywords == <<"mairu", "zengchi", "kanduo", "jianyi-mairu", "buy", "bullish">>

ra_sell_keywords == <<"maichu", "jianchi", "kankong", "jianyi-maichu", "sell", "bearish">>

\* a parsing that returns the recommendation as the keywords spell it
parse_action_from_text_unmapped(t) ==
    LET rec == recommend(keyword_score(lower(t), ra_buy_keywords),
                         keyword_score(lower(t), ra_sell_keywords),
                         keyword_score(lower(t), hold_keywords))
    IN  [action |-> rec.recommendation, confidence |-> rec.confidence]

\* _parse_action_from_text
parse_action_from_text(t) ==
    LET rec == recommend(keyword_score(lower(t), ra_buy_keywords),
                         keyword_score(lower(t), ra_sell_keywords),
                         keyword_score(lower(t), hold_keywords))
    IN  [action |-> action_map(rec.recommendation), confidence |-> rec.confidence]

\* gaofengxian, fengxian-jiaoda, jinshen, weixian
high_risk_keywords == <<"gaofengxian", "fengxian-jiaoda", "jinshen", "weixian", "high risk">>

\* difengxian, anquan, wenjian
low_risk_keywords == <<"difengxian", "anquan", "wenjian", "low risk">>

\* _determine_risk_level_from_text
determine_risk_level_from_text(t) ==
    LET high_score == keyword_score(lower(t), high_risk_keywords)
        low_score == keyword_score(lower(t), low_risk_keywords)
    IN  IF high_score > low_score THEN "high"
        ELSE IF low_score > high_score THEN "low"
        ELSE "medium"

OriginalRationaleLimit == 200

\* _form_final_decision_from_text when SignalProcessor cannot be imported or
\* fails: the simple parsing of the except branch
form_final_decision_from_text(c, trade_signal, final_text) ==
    LET parsed == parse_action_from_text(final_text.str)
        has_signal == TruthyV(trade_signal) /\ IsDict(trade_signal)
        original_position == IF has_signal
                             THEN DictGet(trade_signal.dict, "position_size", N(0)).num
                             ELSE 50
        original_rationale == IF has_signal
                              THEN DictGet(trade_signal.dict, "rationale", Empty)
                              ELSE Empty
        position_size == IF parsed.action = "HOLD" THEN 0
                         ELSE IF original_position > 0
                              THEN (Min(parsed.confidence, 100) * original_position) \div 100
                              ELSE parsed.confidence \div 2
        text == S(truncate(final_text.str, RationaleLimit))
    IN  D([ticker |-> AnalysisContext_get(c, CONTEXT, "ticker", NoneV),
           action |-> S(<<parsed.action>>),
           position_size |-> N(position_size),
           confidence |-> N(parsed.confidence),
           risk_level |-> S(<<determine_risk_level_from_text(final_text.str)>>),
           rationale |-> text,
           reasoning |-> text,
           original_rationale |->
               IF TruthyV(original_rationale)
               THEN S(SubSeq(original_rationale.str, 1,
                             Min(Len(original_rationale.str), OriginalRationaleLimit)))
               ELSE Empty,
           target_price |-> NoneV,
           risk_score |-> N(50)])

\* RiskAssessmentPhase.execute with one debate round
risk_assessment(c, clk, o1, o2, o3, om) ==
    LET ticker == AnalysisContext_get(c, CONTEXT, "ticker", NoneV)
        trade_signal == AnalysisContext_get(c, DECISIONS, "trade_signal", NoneV)
        trader_plan == AnalysisContext_get(c, DECISIONS, "trader_investment_plan", NoneV)
        investment_plan == AnalysisContext_get(c, DECISIONS, "investment_plan", NoneV)
        skipped == [ticker |-> ticker, risk_reports |-> <<>>, final_decision |-> NoneV]
        st0 == ra_build_initial_state(c, IF TruthyV(trader_plan) THEN trader_plan
                                         ELSE S(str_of(investment_plan)))
        s1 == run_risk_analyst(st0, "risky", o1)
        s2 == run_risk_analyst(s1.state, "safe", o2)
        s3 == run_risk_analyst(s2.state, "neutral", o3)
        s4 == run_risk_manager(s3.state, om)
        ev == AgentEvent(RISK_ASSESSMENT, "risky_analyst", o1)
              \cup AgentEvent(RISK_ASSESSMENT, "safe_analyst", o2)
              \cup AgentEvent(RISK_ASSESSMENT, "neutral_analyst", o3)
              \cup AgentEvent(RISK_ASSESSMENT, "risk_manager", om)
        risk_debate_state == DictGet(s4.state, "risk_debate_state", D(EmptyDict))
        final_trade_decision == generate_final_trade_decision(c)
        c1 == AnalysisContext_set(c, DECISIONS, "risk_debate_state", risk_debate_state,
                                  "risk_assessment", clk + 1)
        c2 == AnalysisContext_set(c1, DECISIONS, "final_trade_decision",
                                  final_trade_decision, "risk_assessment", clk + 2)
        final_decision == form_final_decision_from_text(c2, trade_signal,
                                                        final_trade_decision)
        c3 == AnalysisContext_set(c2, DECISIONS, "final_decision", final_decision,
                                  "risk_manager", clk + 3)
    IN  IF IsNone(trade_signal) /\ IsNone(trader_plan)
        THEN Executed(c, clk, skipped, NoneV, {})
        ELSE Executed(c3, clk + 3,
                      [ticker |-> ticker, risk_reports |-> risk_profiles,
                       final_decision |-> final_decision.dict.action], NoneV, ev)

\* RiskAssessmentPhase.execute
RiskAssessmentExecute(o1, o2, o3, om) ==
    /\ pc = "ra"
    /\ o1 \in AgentOutcomes(cfg, {})
    /\ o2 \in AgentOutcomes(cfg, {})
    /\ o3 \in AgentOutcomes(cfg, {})
    /\ om \in AgentOutcomes(cfg, {})
    /\ ExecutorDone(risk_assessment(ctx, clock, o1, o2, o3, om))

-----------------------------------------------------------------------------
(* StockAnalysisEngine.analyze (Spec) *)

TickerSuffixed == S(<<"0","0","0","0","0","1",".","s","z">>)

\* the arguments of analyze and of the engine's constructor:
\*   a ticker in the six-digit form, with a lower-case exchange suffix, or empty;
\*   a market type given or left empty; a trade date given or empty;
\*   one analyst (run sequentially) or two (run in the thread pool), as stubs
\*   or, for one analyst, as an agent; debate agents available or not;
\*   at most one phase whose registered executor raises, after it stored a
\*   final decision or without storing anything
EngineInputs ==
    {<<Ticker000001, TradeDate, S(CN)>>, <<TickerSuffixed, TradeDate, Empty>>,
     <<Empty, TradeDate, S(CN)>>, <<Ticker000001, Empty, S(CN)>>}

EngineAnalysts ==
    {<<<<"market_analyst">>, TRUE>>, <<<<"market_analyst">>, FALSE>>,
     <<<<"market_analyst", "news_analyst">>, TRUE>>}

EngineCustom == {{}, {ANALYSTS}, {RISK_ASSESSMENT}}

EngineConfigs ==
    {[EngineConfig(i[1], i[2], i[3], List(a[1]), DefaultMaxWorkers, a[2], x[1], av)
        EXCEPT !.custom_writes = x[2]]
       : i \in EngineInputs, a \in EngineAnalysts,
         x \in {y \in EngineCustom \X BOOLEAN : y[2] => y[1] # {}},
         av \in BOOLEAN}

Init ==
    /\ cfg \in EngineConfigs
    /\ ctx = NewAnalysisContext(0)
    /\ access_log = <<>>
    /\ clock = 0
    /\ call = NoCall /\ ncalls = 0 /\ ret = EmptyDict
    /\ SchemaUnused
    /\ pc = "idle"
    /\ phase = 0
    /\ result = EmptyDict
    /\ exc = NoneV
    /\ phase_outputs = EmptyDict
    /\ workers = EmptyDict
    /\ agent_state = EmptyDict
    /\ invoked = <<>>
    /\ raised = <<>>
    /\ faults = {}
    /\ committed = ctx

AgentCallOutcomes == {"unavailable", "ok", "raise", "malformed", "bad_plan"}

Next ==
    \/ Analyze
    \/ ExecutePhase
    \/ DataCollectionExecute
    \/ AnalystsBegin
    \/ \E outcome \in {"stub", "report", "noreport", "nofield", "raise"} :
           RunSequential(outcome)
    \/ \E a \in Range(default_analysts) :
           \E outcome \in {"stub", "report", "noreport", "nofield", "raise"} :
               WorkerStart(a, outcome)
    \/ \E a \in Range(default_analysts) : WorkerStore(a)
    \/ \E a \in Range(default_analysts) : WorkerNow(a)
    \/ \E a \in Range(default_analysts) : WorkerStamp(a)
    \/ \E a \in Range(default_analysts) : WorkerLineage(a)
    \/ \E a \in Range(default_analysts) : Collect(a)
    \/ PoolJoin
    \/ \E ob, oe, om \in AgentCallOutcomes : ResearchDebateExecute(ob, oe, om)
    \/ \E ot \in AgentCallOutcomes : TradeDecisionExecute(ot)
    \/ \E o1, o2, o3, om \in AgentCallOutcomes : RiskAssessmentExecute(o1, o2, o3, om)
    \/ PhaseReturn
    \/ Finish

Spec == Init /\ [][Next]_vars

-----------------------------------------------------------------------------
-----------------------------------------------------------------------------
(* TradeDecisionPhase.execute on a context that holds an investment plan  *)
(* (SpecTrade)                                                            *)

\* investment plans that are texts: no keyword, one keyword, ties between
\* two scores, a majority for each of the three, upper case, a keyword that
\* holds another one
TextPlans ==
    { S(<<>>), S(<<"no", "view">>), S(<<"buy">>), S(<<"SELL">>), S(<<"hold">>),
      S(<<"buy", "sell">>), S(<<"buy", "hold">>), S(<<"sell", "neutral">>),
      S(<<"buy", "bullish", "sell">>), S(<<"sell", "bearish", "kandie", "buy">>),
      S(<<"Buy", "hold", "neutral">>), S(<<"jianyi-mairu", "hold">>),
      S(<<"buy", "bullish", "sell", "bearish">>),
      S(<<"mairu", "zengchi", "kanduo", "buy", "bullish", "kanzhang">>) }

\* investment plans that are dicts
StructuredPlans ==
    { D(EmptyDict),
      D([recommendation |-> S(<<"buy">>), confidence |-> N(80),
         rationale |-> S(<<"growth">>)]),
      D([recommendation |-> S(<<"SELL">>), confidence |-> N(150)]),
      D([recommendation |-> S(<<"sell">>), confidence |-> N(-20)]),
      D([recommendation |-> S(<<"hold">>), confidence |-> N(120)]),
      D([recommendation |-> S(<<"strong", "buy">>), confidence |-> NoneV]),
      D([recommendation |-> S(<<"buy">>), confidence |-> S(<<"high">>)]),
      D([recommendation |-> NoneV, confidence |-> N(70)]) }

TradePlans == TextPlans \cup StructuredPlans \cup {NoneV}

TradeTickers == {Ticker000001, S(<<"A","A","P","L">>)}

\* a context as the earlier phases leave it: the ticker and the plan
TradeContext(ticker, investment_plan) ==
    AnalysisContext_set(
        AnalysisContext_set(NewAnalysisContext(0), CONTEXT, "ticker", ticker, "init", 1),
        DECISIONS, "investment_plan", investment_plan, "research_manager", 2)

InitTrade ==
    /\ \E ticker \in TradeTickers, investment_plan \in TradePlans :
          ctx = TradeContext(ticker, investment_plan)
    /\ clock = 2
    /\ access_log = <<>> /\ call = NoCall /\ ncalls = 0 /\ ret = EmptyDict
    /\ SchemaUnused
    /\ cfg = EmptyDict /\ pc = "td_ready" /\ phase = 0 /\ result = EmptyDict
    /\ exc = NoneV /\ phase_outputs = EmptyDict /\ workers = EmptyDict
    /\ agent_state = EmptyDict /\ invoked = <<>> /\ raised = <<>> /\ faults = {}
    /\ committed = ctx

\* TradeDecisionPhase(...).execute(context, data_manager), with a trader that
\* is unavailable, returns a plan, raises, or returns something else
TradeDecisionRun(ot) ==
    /\ pc = "td_ready"
    /\ LET r == trade_decision(ctx, clock, ot)
       IN  /\ ctx' = r.ctx
           /\ clock' = r.clock
           /\ phase_outputs' = r.outputs
           /\ exc' = r.exc
           /\ faults' = r.events
    /\ call' = [op |-> "trade_decision", trader |-> ot]
    /\ pc' = "td_done"
    /\ UNCHANGED <<access_log, ncalls, ret, cfg, schema_vars, phase, result, workers,
                   agent_state, invoked, raised, committed>>

NextTrade == \E ot \in AgentCallOutcomes : TradeDecisionRun(ot)

SpecTrade == InitTrade /\ [][NextTrade]_vars

-----------------------------------------------------------------------------
(* ResearchDebatePhase.execute, one agent turn at a time (SpecDebate) *)

\* the largest debate_rounds a ResearchDebatePhase is built with here
MaxDebateRounds == 3

\* a position of execute that continues at the wrong turn: no bear turn
\* after the first round
next_turn_bull_only_later(position, round_num, debate_rounds) ==
    CASE position = "rd_start" -> IF debate_rounds > 0 THEN "rd_bull" ELSE "rd_manager"
      [] position = "rd_bull" -> IF round_num = 0 THEN "rd_bear"
                                 ELSE IF round_num + 1 < debate_rounds THEN "rd_bull"
                                 ELSE "rd_manager"
      [] position = "rd_bear" -> IF round_num + 1 < debate_rounds THEN "rd_bull"
                                 ELSE "rd_manager"
      [] OTHER -> "rd_done"

\* where execute continues: `for round_num in range(self.debate_rounds)` runs
\* the bull and then the bear turn of each round, and the manager follows
next_turn(position, round_num, debate_rounds) ==
    CASE position = "rd_start" -> IF debate_rounds > 0 THEN "rd_bull" ELSE "rd_manager"
      [] position = "rd_bull" -> "rd_bear"
      [] position = "rd_bear" -> IF round_num + 1 < debate_rounds THEN "rd_bull"
                                 ELSE "rd_manager"
      [] OTHER -> "rd_done"

\* the record of one agent turn: the state handed to the helper and the
\* state it returned
Turn(agent_id, saw, left) == [agent_id |-> agent_id, saw |-> saw, left |-> left]

DebateContext ==
    AnalysisContext_set(
        AnalysisContext_set(NewAnalysisContext(0), CONTEXT, "ticker", Ticker000001,
                            "init", 1),
        REPORTS, "market_report", S(<<"market", "is", "up">>), "market_analyst", 2)

InitDebate ==
    /\ \E debate_rounds \in 0 .. MaxDebateRounds, agents_available \in BOOLEAN :
          cfg = [debate_rounds |-> debate_rounds, agents_available |-> agents_available]
    /\ ctx = DebateContext
    /\ clock = 2
    /\ access_log = <<>> /\ call = NoCall /\ ncalls = 0 /\ ret = EmptyDict
    /\ SchemaUnused
    /\ pc = "rd_start" /\ phase = 0 /\ result = EmptyDict
    /\ exc = NoneV /\ phase_outputs = EmptyDict /\ workers = EmptyDict
    /\ agent_state = EmptyDict /\ invoked = <<>> /\ raised = <<>> /\ faults = {}
    /\ committed = ctx

\* execute up to the loop: steps 1 and 2
DebateBegin ==
    /\ pc = "rd_start"
    /\ agent_state' = rd_build_initial_state(ctx, collect_analyst_reports(ctx))
    /\ pc' = next_turn("rd_start", 0, cfg.debate_rounds)
    /\ UNCHANGED <<access_vars, schema_vars, cfg, phase, result, exc, phase_outputs,
                   workers, invoked, raised, faults, committed>>

\* one researcher turn and the reading of current_response that follows it
ResearcherTurn(position, agent_id, r) ==
    /\ pc = position
    /\ invoked' = Append(invoked, Turn(agent_id, agent_state, r.state))
    /\ agent_state' = r.state
    /\ IF ~ IsNone(r.exc)
       THEN exc' = r.exc /\ pc' = "rd_raised" /\ phase' = phase
       ELSE IF IsNone(r.state["investment_debate_state"])
       THEN exc' = NoneTypeHasNoGet /\ pc' = "rd_raised" /\ phase' = phase
       ELSE /\ exc' = exc
            /\ pc' = next_turn(position, phase, cfg.debate_rounds)
            /\ phase' = IF position = "rd_bear" THEN phase + 1 ELSE phase
    /\ UNCHANGED <<access_vars, schema_vars, cfg, result, phase_outputs, workers,
                   raised, faults, committed>>

\* state = self._run_bull_researcher(state)
BullTurn(outcome) ==
    /\ outcome \in AgentOutcomes(cfg, {"malformed"})
    /\ ResearcherTurn("rd_bull", "bull_researcher", run_bull_researcher(agent_state, outcome))

\* state = self._run_bear_researcher(state)
BearTurn(outcome) ==
    /\ outcome \in AgentOutcomes(cfg, {"malformed"})
    /\ ResearcherTurn("rd_bear", "bear_researcher", run_bear_researcher(agent_state, outcome))

\* steps 4 and 5: the manager turn and the writes to the context
ManagerTurn(outcome) ==
    /\ pc = "rd_manager"
    /\ outcome \in AgentOutcomes(cfg, {"malformed", "bad_plan"})
    /\ LET m == run_research_manager(agent_state, outcome)
           r == rd_summarise(ctx, clock, AnalysisContext_get(ctx, CONTEXT, "ticker", NoneV),
                             agent_state, outcome, {})
       IN  /\ invoked' = Append(invoked, Turn("research_manager", agent_state, m.state))
           /\ agent_state' = m.state
           /\ ctx' = r.ctx
           /\ clock' = r.clock
           /\ phase_outputs' = r.outputs
           /\ exc' = r.exc
           /\ pc' = IF IsNone(r.exc) THEN next_turn("rd_manager", phase, cfg.debate_rounds)
                    ELSE "rd_raised"
    /\ UNCHANGED <<access_log, call, ncalls, ret, schema_vars, cfg, phase, result,
                   workers, raised, faults, committed>>

NextDebate ==
    \/ DebateBegin
    \/ \E outcome \in AgentCallOutcomes : BullTurn(outcome)
    \/ \E outcome \in AgentCallOutcomes : BearTurn(outcome)
    \/ \E outcome \in AgentCallOutcomes : ManagerTurn(outcome)

SpecDebate == InitDebate /\ [][NextDebate]_vars

(* DataCollectionPhase.execute run and run again on one context (SpecCollection) *)

\* tickers handed to analyze: six digits; with a lower-case or an upper-case
\* suffix; with two suffixes; with white space around it or before the
\* suffix; of other markets; empty
CollectionTickers ==
    { Ticker000001,
      TickerSuffixed,
      S(<<"0","0","0","0","0","1",".","S","H">>),
      S(<<"0","0","0","0","0","1",".","S","Z",".","S","H">>),
      S(<<" ","0","0","0","0","0","1",".","B","J"," ">>),
      S(<<"0","0","0","0","0","1"," ",".","S","Z">>),
      S(<<"a","a","p","l">>),
      S(<<"0","7","0","0",".","h","k">>),
      Empty }

\* market types handed to analyze; an empty one makes the phase detect it
CollectionMarkets == {S(CN), S(<<"u","s">>), S(<<"h","k">>), Empty}

CollectionDates == {TradeDate, Empty}

CollectionNames == {NoneV, S(<<"Ping An Bank">>)}

InitCollection ==
    /\ \E ticker \in CollectionTickers, trade_date \in CollectionDates,
          company_name \in CollectionNames, market_type \in CollectionMarkets :
           /\ ctx = create_context(ticker, trade_date, company_name, market_type, 0)
           /\ clock = create_context_reads(company_name)
    /\ access_log = <<>>
    /\ call = NoCall
    /\ ncalls = 0
    /\ ret = EmptyDict
    /\ EngineUnused
    /\ SchemaUnused

\* executor.execute(context, data_manager) of the DataCollection phase
CallExecute ==
    /\ ncalls < MaxCalls
    /\ LET r == data_collection(ctx, clock)
       IN  /\ ctx' = r.ctx
           /\ clock' = r.clock
           /\ ret' = [outputs |-> r.outputs, exc |-> r.exc]
    /\ call' = [op |-> "execute"]
    /\ ncalls' = ncalls + 1
    /\ UNCHANGED <<access_log, engine_vars, schema_vars>>

NextCollection == CallExecute

SpecCollection == InitCollection /\ [][NextCollection]_vars

-----------------------------------------------------------------------------
(* state/models.py: WorkflowStateSchema.get_execution_order *)

\* StateFieldDefinition(name, source_agent): the attributes the ordering reads
StateFieldDefinition(name, source_agent) == [name |-> name, source_agent |-> source_agent]

\* WorkflowStateSchema(fields, agent_dependencies)
WorkflowStateSchema(fields, agent_dependencies) ==
    [fields |-> fields, agent_dependencies |-> agent_dependencies]

\* self.agent_dependencies.get(agent_id, [])
dependencies_of(s, agent_id) == DictGet(s.agent_dependencies, agent_id, <<>>)

\* the loop over self.fields.items() that looks for the agent producing
\* dep_field: the source_agent of the field of that name when it is set
dep_agent_of(s, dep_field) ==
    IF dep_field \in DOMAIN s.fields /\ Truthy(s.fields[dep_field].source_agent)
    THEN s.fields[dep_field].source_agent
    ELSE None

\* an edge that is entered in the graph without counting it in in_degree
add_dependency_uncounted(g, agent_id, dep_agent, agent_ids) ==
    IF Truthy(dep_agent) /\ dep_agent \in Range(agent_ids)
    THEN [g EXCEPT !.graph[dep_agent] = Append(@, agent_id)]
    ELSE g

\* if dep_agent and dep_agent in agent_ids: graph[dep_agent].append(agent_id);
\* in_degree[agent_id] += 1
add_dependency(g, agent_id, dep_agent, agent_ids) ==
    IF Truthy(dep_agent) /\ dep_agent \in Range(agent_ids)
    THEN [g EXCEPT !.graph[dep_agent] = Append(@, agent_id),
                   !.in_degree[agent_id] = @ + 1]
    ELSE g

\* for dep_field in deps: ...
RECURSIVE add_dependencies(_, _, _, _, _, _)
add_dependencies(g, s, agent_id, deps, agent_ids, k) ==
    IF k > Len(deps) THEN g
    ELSE add_dependencies(
            add_dependency(g, agent_id, dep_agent_of(s, deps[k]), agent_ids),
            s, agent_id, deps, agent_ids, k + 1)

\* for agent_id in agent_ids: ...; g holds in_degree and graph
RECURSIVE build_graph(_, _, _, _)
build_graph(g, s, agent_ids, i) ==
    IF i > Len(agent_ids) THEN g
    ELSE build_graph(
            add_dependencies(g, s, agent_ids[i], dependencies_of(s, agent_ids[i]),
                             agent_ids, 1),
            s, agent_ids, i + 1)

\* for dependent in graph[agent_id]: in_degree[dependent] -= 1; the
\* dependent joins the queue when its in_degree becomes 0; k = [queue,
\* order, in_degree]
RECURSIVE release_dependents(_, _, _)
release_dependents(k, dependents, i) ==
    IF i > Len(dependents) THEN k
    ELSE LET d == dependents[i]
             degree == k.in_degree[d] - 1
         IN  release_dependents(
                [k EXCEPT !.in_degree[d] = degree,
                          !.queue = IF degree = 0 THEN Append(@, d) ELSE @],
                dependents, i + 1)

\* while queue: agent_id = queue.popleft(); result.append(agent_id); ...
RECURSIVE kahn(_, _)
kahn(k, graph) ==
    IF k.queue = <<>> THEN k.order
    ELSE LET agent_id == Head(k.queue)
         IN  kahn(release_dependents(
                      [k EXCEPT !.queue = Tail(@), !.order = Append(@, agent_id)],
                      graph[agent_id], 1),
                  graph)

\* sorted(seq, key=...): a stable sort, here by insertion
RECURSIVE sorted_by(_, _, _)
sorted_by(s, seq, i) ==
    IF i > Len(seq) THEN <<>>
    ELSE LET rest == sorted_by(s, seq, i + 1)
             x == seq[i]
             key(a) == Len(dependencies_of(s, a))
             smaller == SelectSeq(rest, LAMBDA y : key(y) < key(x))
             others == SelectSeq(rest, LAMBDA y : ~ (key(y) < key(x)))
         IN  smaller \o <<x>> \o others

\* WorkflowStateSchema.get_execution_order
get_execution_order(s, agent_ids) ==
    LET g == build_graph([in_degree |-> [a \in Range(agent_ids) |-> 0],
                          graph |-> [a \in Range(agent_ids) |-> <<>>]],
                         s, agent_ids, 1)
        queue == SelectSeq(agent_ids, LAMBDA a : g.in_degree[a] = 0)
        order == kahn([queue |-> queue, order |-> <<>>, in_degree |-> g.in_degree],
                      g.graph)
    IN  IF Len(order) # Len(agent_ids)
        THEN sorted_by(s, agent_ids, 1)
        ELSE order

-----------------------------------------------------------------------------
(* get_execution_order on schemas with up to three agents (SpecWorkflow) *)

WorkflowAgents == {"market_analyst", "bull_researcher", "trader"}

\* the fields of the schema
WorkflowFields == {"market_report", "investment_plan"}

\* the lists agent_dependencies gives an agent: fields of the schema, a
\* field the schema does not have, a field named twice
WorkflowDependencies ==
    { <<>>, <<"market_report">>, <<"investment_plan">>, <<"trade_signal">>,
      <<"market_report", "investment_plan">>,
      <<"investment_plan", "market_report">>,
      <<"market_report", "market_report">> }

\* the lists of agent ids without duplicates
WorkflowAgentLists ==
    LET lists == {<<>>} \cup {<<a>> : a \in WorkflowAgents}
                 \cup {<<a, b>> : a, b \in WorkflowAgents}
                 \cup {<<a, b, c>> : a, b, c \in WorkflowAgents}
    IN  {l \in lists : Cardinality(Range(l)) = Len(l)}

InitWorkflow ==
    /\ \E sources \in [WorkflowFields -> WorkflowAgents \cup {None}],
          deps \in [WorkflowAgents -> WorkflowDependencies] :
           schema = WorkflowStateSchema(
                        [f \in WorkflowFields |-> StateFieldDefinition(f, sources[f])],
                        deps)
    /\ registered_agents = EmptyDict
    /\ results = EmptyDict
    /\ ContextUnused
    /\ EngineUnused

\* schema.get_execution_order(agent_ids)
CallGetExecutionOrder(agent_ids) ==
    /\ ret' = get_execution_order(schema, agent_ids)
    /\ call' = [op |-> "get_execution_order", agent_ids |-> agent_ids]
    /\ UNCHANGED <<ctx, access_log, clock, ncalls, engine_vars, schema_vars>>

NextWorkflow == \E agent_ids \in WorkflowAgentLists : CallGetExecutionOrder(agent_ids)

SpecWorkflow == InitWorkflow /\ [][NextWorkflow]_vars

-----------------------------------------------------------------------------
-----------------------------------------------------------------------------
(* agent_integrator.py: run_agent_with_tools (SpecIntegrator) *)

\* max_iterations of run_agent_with_tools
DefaultMaxIterations == 3

\* the output fields the metadata of the agents declare
AgentOutputFields ==
    [market_analyst |-> "market_report", news_analyst |-> "news_report"]

\* get_output_field: None for an agent without metadata
get_output_field(agent_id) ==
    IF agent_id \in DOMAIN AgentOutputFields THEN AgentOutputFields[agent_id] ELSE None

\* f"{agent_id.replace('_analyst', '')}_tool_call_count"
counter_key(agent_id) ==
    CASE agent_id = "market_analyst" -> "market_tool_call_count"
      [] agent_id = "news_analyst" -> "news_tool_call_count"
      [] OTHER -> "custom_agent_tool_call_count"

\* messages an agent can return: an AI message that requests a tool call,
\* one that requests none, and a message without the attribute tool_calls
AIMessageWithToolCall ==
    [type |-> "ai",
     tool_calls |-> << [name |-> "get_stock_data", args |-> EmptyDict, id |-> "call_1"] >>]
AIMessagePlain == [type |-> "ai", tool_calls |-> <<>>]
HumanMessage == [type |-> "human"]

\* _execute_tool_calls: one ToolMessage per tool call, whatever the tool did
\* (it ran, it does not exist, it raised)
execute_tool_calls(tool_calls, tool_outcome) ==
    [i \in DOMAIN tool_calls |->
        [type |-> "tool", tool_call_id |-> tool_calls[i].id,
         name |-> tool_calls[i].name, content |-> tool_outcome]]

\* the three tests of the loop body that return the result of the agent
agent_result_returns(report_field, vr) ==
    \/ /\ Truthy(report_field)
       /\ report_field \in DOMAIN vr
       /\ TruthyV(vr[report_field])
    \/ DictGet(vr, "messages", <<>>) = <<>>
    \/ LET messages == vr["messages"]
           last_message == messages[Len(messages)]
       IN  \/ "tool_calls" \notin DOMAIN last_message
           \/ last_message.tool_calls = <<>>

\* the end of the loop body when the agent asked for tools: current_state
\* gets the message, the tool results and the counter
tools_executed(current_state, agent_id, vr, tool_outcome) ==
    LET messages == vr["messages"]
        last_message == messages[Len(messages)]
        tool_results == execute_tool_calls(last_message.tool_calls, tool_outcome)
        s1 == DictSet(current_state, "messages",
                      DictGet(current_state, "messages", <<>>)
                      \o <<last_message>> \o tool_results)
    IN  DictSet(s1, counter_key(agent_id),
                DictGet(s1, counter_key(agent_id), 0) + 1)

\* a loop of one turn more than max_iterations
range_one_more(iteration, max_iterations) == iteration <= max_iterations

\* for iteration in range(max_iterations): there is a next turn
range_has_next(iteration, max_iterations) == iteration < max_iterations

\* the local variable result before its first assignment
Unbound == [unbound |-> TRUE]

UnboundLocalError == S(<<"UnboundLocalError", "result">>)
AgentCallError == S(<<"agent", "call", "raised">>)

\* what the agent function can return
AgentResults ==
    { EmptyDict,
      [messages |-> <<>>],
      [messages |-> <<HumanMessage>>],
      [messages |-> <<AIMessagePlain>>],
      [messages |-> <<AIMessageWithToolCall>>],
      [messages |-> <<HumanMessage, AIMessageWithToolCall>>],
      [market_report |-> S(<<"report">>), messages |-> <<AIMessageWithToolCall>>],
      [market_report |-> S(<<>>), messages |-> <<AIMessageWithToolCall>>],
      [news_report |-> S(<<"report">>), messages |-> <<AIMessageWithToolCall>>] }

IntegratorAgents == {"market_analyst", "news_analyst", "custom_agent"}

IntegratorStates == {EmptyDict, [messages |-> <<HumanMessage>>]}

IterationLimits == 0 .. DefaultMaxIterations

ToolOutcomes == {"ok", "missing", "failed"}

\* pc: idle, loop, returned, raised; phase: the loop variable iteration;
\* agent_state: current_state; result: the local result; invoked: the results
\* of the agent, one per invocation
InitIntegrator ==
    /\ ContextUnused
    /\ SchemaUnused
    /\ cfg = EmptyDict /\ pc = "idle" /\ phase = 0 /\ result = Unbound
    /\ exc = NoneV /\ phase_outputs = EmptyDict /\ workers = EmptyDict
    /\ agent_state = EmptyDict /\ invoked = <<>> /\ raised = <<>> /\ faults = {}
    /\ committed = EmptyDict

\* run_agent_with_tools up to the loop
CallRunAgentWithTools(agent_id, state, max_iterations) ==
    /\ pc = "idle"
    /\ call' = [op |-> "run_agent_with_tools", agent_id |-> agent_id,
                state |-> state, max_iterations |-> max_iterations,
                report_field |-> get_output_field(agent_id)]
    /\ agent_state' = state
    /\ pc' = "loop"
    /\ UNCHANGED <<ctx, access_log, clock, ncalls, ret, cfg, schema_vars, phase, result,
                   exc, phase_outputs, workers, invoked, raised, faults, committed>>

\* one turn of the loop whose agent call returns vr
Iterate(vr, tool_outcome) ==
    /\ pc = "loop"
    /\ range_has_next(phase, call.max_iterations)
    /\ invoked' = Append(invoked, vr)
    /\ result' = vr
    /\ IF agent_result_returns(call.report_field, vr)
       THEN /\ ret' = vr
            /\ pc' = "returned"
            /\ UNCHANGED <<agent_state, phase>>
       ELSE /\ agent_state' = tools_executed(agent_state, call.agent_id, vr, tool_outcome)
            /\ phase' = phase + 1
            /\ UNCHANGED <<ret, pc>>
    /\ UNCHANGED <<ctx, access_log, clock, call, ncalls, cfg, schema_vars, exc,
                   phase_outputs, workers, raised, faults, committed>>

\* one turn of the loop whose agent call raises
AgentRaises ==
    /\ pc = "loop"
    /\ range_has_next(phase, call.max_iterations)
    /\ invoked' = Append(invoked, AgentCallError)
    /\ exc' = AgentCallError
    /\ pc' = "raised"
    /\ UNCHANGED <<access_vars, cfg, schema_vars, phase, result, phase_outputs, workers,
                   agent_state, raised, faults, committed>>

\* the loop is over: return result
Exhausted ==
    /\ pc = "loop"
    /\ ~ range_has_next(phase, call.max_iterations)
    /\ IF result = Unbound
       THEN exc' = UnboundLocalError /\ pc' = "raised" /\ ret' = ret
       ELSE exc' = exc /\ pc' = "returned" /\ ret' = result
    /\ UNCHANGED <<ctx, access_log, clock, call, ncalls, cfg, schema_vars, phase, result,
                   phase_outputs, workers, agent_state, invoked, raised, faults,
                   committed>>

NextIntegrator ==
    \/ \E agent_id \in IntegratorAgents, state \in IntegratorStates,
          max_iterations \in IterationLimits :
           CallRunAgentWithTools(agent_id, state, max_iterations)
    \/ \E vr \in AgentResults, tool_outcome \in ToolOutcomes : Iterate(vr, tool_outcome)
    \/ AgentRaises
    \/ Exhausted

\* the calling thread runs, and each call of the agent and of a tool returns
SpecIntegrator ==
    InitIntegrator /\ [][NextIntegrator]_vars /\ WF_vars(NextIntegrator)

-----------------------------------------------------------------------------
(* Claims on AnalysisContext and DataAccessManager *)

Absent == [absent |-> TRUE]

\* the value of field F of layer L, Absent when the layer has no such key
Stored(c, L, F) == DictGet(c[L], F, Absent)

\* the lineage entry of (L, F), "<absent>" when there is none
LineageEntry(c, L, F) == DictGet(c.data_lineage, lineage_key(L, F), "<absent>")

\* (L, F) is listed in an output DataAccess of the contract
DeclaredOutput(contract, L, F) ==
    \E i \in DOMAIN contract.outputs :
        contract.outputs[i].layer = L /\ F \in Range(contract.outputs[i].fields)

\* every field name that occurs in the layers of a context
FieldsOf(c) == UNION {DOMAIN c[L] : L \in DataLayer}

\* C1: a set_data call changes the value or the lineage of (layer, field) only
\* when field is a key of outputs and the contract lists field as an output of
\* layer; so a key of outputs that no output DataAccess lists is written to no
\* layer and gets no lineage entry.
C1_SetDataWritesOnlyDeclared ==
    [][call'.op = "set_data" =>
        \A L \in DataLayer :
            \A F \in FieldsOf(ctx) \cup FieldsOf(ctx') \cup DOMAIN call'.outputs :
                (\/ Stored(ctx', L, F) # Stored(ctx, L, F)
                 \/ LineageEntry(ctx', L, F) # LineageEntry(ctx, L, F))
                => (F \in DOMAIN call'.outputs /\ DeclaredOutput(call'.contract, L, F))
      ]_vars

\* C1 witness: a set_data call whose outputs hold a declared key, which was
\* written, and a key that the contract declares nowhere
C1_Witness ==
    /\ call.op = "set_data"
    /\ \E K \in DOMAIN call.outputs :
          \A L \in DataLayer : ~DeclaredOutput(call.contract, L, K)
    /\ \E K \in DOMAIN call.outputs, L \in DataLayer :
          /\ DeclaredOutput(call.contract, L, K)
          /\ Stored(ctx, L, K) = call.outputs[K]
          /\ LineageEntry(ctx, L, K) = call.agent_id

\* C10: set(L1, F, v) leaves get(L2, F) and the lineage entry of (L2, F)
\* unchanged for every other layer L2.
C10_LayerIsolation ==
    [][call'.op = "set" =>
        \A L2 \in DataLayer \ {call'.layer} :
            /\ AnalysisContext_get(ctx', L2, call'.field_name, Absent)
                 = AnalysisContext_get(ctx, L2, call'.field_name, Absent)
            /\ get_field_source(ctx', L2, call'.field_name)
                 = get_field_source(ctx, L2, call'.field_name)
      ]_vars

\* C10 witness: a set on a field name that another layer holds with another
\* value and another lineage entry
C10_Witness ==
    /\ call.op = "set"
    /\ \E L2 \in DataLayer \ {call.layer} :
          /\ call.field_name \in DOMAIN ctx[L2]
          /\ ctx[L2][call.field_name] # call.value
          /\ get_field_source(ctx, L2, call.field_name) # None
          /\ get_field_source(ctx, call.layer, call.field_name) = None
-----------------------------------------------------------------------------
(* Claims on StockAnalysisEngine.analyze and its phase executors *)

\* the order of the phases the engine is specified to follow
FixedOrder ==
    <<"data_collection", "analysts", "research_debate", "trade_decision",
      "risk_assessment">>

PhaseIndex(ph) == CHOOSE i \in DOMAIN FixedOrder : FixedOrder[i] = ph

IsPrefix(s, t) == Len(s) <= Len(t) /\ SubSeq(t, 1, Len(s)) = s

PhasesOf(prs) == [i \in DOMAIN prs |-> prs[i].phase]

Started == pc \notin {"idle", "unused"}

Returned == pc = "done"

\* the sources of lineage entries that are agents
AgentIds ==
    Range(default_analysts) \cup
    {"bull_researcher", "bear_researcher", "research_manager", "trader",
     "risk_manager", "risky_analyst", "safe_analyst", "neutral_analyst"}

HasWriteEntry(log, agent_id, layer, field_name) ==
    \E i \in DOMAIN log :
        /\ log[i].agent_id = agent_id
        /\ log[i].layer = layer
        /\ field_name \in Range(log[i].fields)
        /\ log[i].action = "write"

\* C2: during analyze, for every data_lineage entry that names an agent the
\* access log holds a write entry for that agent, layer and field.
C2_AgentWritesAreLogged ==
    \A L \in DataLayer :
        \A F \in DOMAIN ctx[L] :
            get_field_source(ctx, L, F) \in AgentIds
                => HasWriteEntry(access_log, get_field_source(ctx, L, F), L, F)

\* C3: when phase k is the first whose executor raises, analyze returns a
\* result with exactly k phase results, the first k-1 successful and the k-th
\* failed, success False, no executor of a later phase invoked, and every field
\* the context held when phase k-1 returned still there with the same value.
C3_FirstFailureStopsTheRun ==
    (Returned /\ raised # <<>>) =>
        LET k == PhaseIndex(raised[1][1])
            prs == result.phase_results
        IN  /\ Len(prs) = k
            /\ \A i \in 1..(k - 1) : prs[i].success
            /\ ~ prs[k].success
            /\ ~ result.success
            /\ invoked = SubSeq(FixedOrder, 1, k)
            /\ \A L \in DataLayer :
                   \A F \in DOMAIN committed[L] :
                       /\ F \in DOMAIN ctx[L]
                       /\ AnalysisContext_get(ctx, L, F, Absent) = committed[L][F]

\* the third phase raised after it had written to the context
C3_Witness ==
    /\ Returned
    /\ raised # <<>>
    /\ raised[1][1] = RESEARCH_DEBATE
    /\ "market_report" \in DOMAIN committed[REPORTS]
    /\ "investment_plan" \in DOMAIN ctx[DECISIONS]
    /\ "investment_plan" \notin DOMAIN committed[DECISIONS]

\* C4: the phases run in the fixed order: the phases of phase_results and the
\* executors invoked are prefixes of that order (so none runs twice), and an
\* executor is invoked only when every earlier one has returned its result.
C4_FixedPhaseOrder ==
    Started =>
        /\ IsPrefix(PhasesOf(result.phase_results), FixedOrder)
        /\ IsPrefix(invoked, FixedOrder)
        /\ Len(invoked) - Len(result.phase_results) \in {0, 1}
        /\ (Len(invoked) = Len(result.phase_results)) <=> (pc \in {"loop", "finish", "done"})

\* a run in which all five phases ran
C4_Witness ==
    /\ Returned
    /\ result.success
    /\ PhasesOf(result.phase_results) = FixedOrder
    /\ invoked = FixedOrder

\* C5: no exception of a phase executor reaches the caller of analyze; the
\* PhaseResult of the phase that raised has success False and the text of
\* the exception as its error.
C5_ExecutorExceptionIsCaught ==
    /\ pc # "crashed"
    /\ Started =>
           \A i \in DOMAIN raised :
               LET k == PhaseIndex(raised[i][1])
               IN  Len(result.phase_results) >= k =>
                       /\ ~ result.phase_results[k].success
                       /\ result.phase_results[k].error = raised[i][2]
    /\ (Returned /\ raised # <<>>) =>
           /\ Len(result.phase_results) = PhaseIndex(raised[1][1])
           /\ ~ result.success
           /\ result.error = S(<<"phase", raised[1][1], "failed:">> \o raised[1][2].str)

\* analyze returned after the trade decision phase raised a TypeError
C5_Witness ==
    /\ Returned
    /\ raised = <<<<TRADE_DECISION, NoneTypeHasNoLen>>>>
    /\ result.phase_results[4].error = NoneTypeHasNoLen

DebatePhases == {RESEARCH_DEBATE, TRADE_DECISION, RISK_ASSESSMENT}

AgentRaisedIn(ph) == \E f \in faults : f[1] = ph /\ f[2] = "agent_raised"

MalformedIn(ph) == \E f \in faults : f[1] = ph /\ f[2] = "malformed"

HasResult(ph) == Started /\ Len(result.phase_results) >= PhaseIndex(ph)

ResultOf(ph) == result.phase_results[PhaseIndex(ph)]

\* C6, as the specification states it: when an agent call inside the
\* ResearchDebate, TradeDecision or RiskAssessment phase raises, the phase
\* ends with success False and a non-empty error and no later phase runs.
C6_AgentFailureFailsThePhase ==
    \A ph \in DebatePhases :
        (AgentRaisedIn(ph) /\ HasResult(ph)) =>
            /\ ~ ResultOf(ph).success
            /\ TruthyV(ResultOf(ph).error)
            /\ Len(invoked) = PhaseIndex(ph)

\* C6, as the code behaves: the exception of an agent call inside the
\* ResearchDebate, TradeDecision or RiskAssessment phase is caught where the
\* agent is called and never becomes the error of the phase; the phase fails
\* only when an agent returns a malformed result, and otherwise it ends with
\* success True and no error, and the next phase is run.
C6_AgentFailureIsAbsorbed ==
    \A ph \in DebatePhases :
        (AgentRaisedIn(ph) /\ HasResult(ph)) =>
            /\ ResultOf(ph).success <=> ~ MalformedIn(ph)
            /\ ResultOf(ph).success => IsNone(ResultOf(ph).error)
            /\ ResultOf(ph).error # AgentError
            /\ (ResultOf(ph).success /\ PhaseIndex(ph) < Len(FixedOrder) /\ Returned)
                   => Len(invoked) > PhaseIndex(ph)

\* the bull researcher raised, the debate phase succeeded and the trade
\* decision phase was run
C6_Witness ==
    /\ <<RESEARCH_DEBATE, "agent_raised", "bull_researcher">> \in faults
    /\ HasResult(RESEARCH_DEBATE)
    /\ ResultOf(RESEARCH_DEBATE).success
    /\ Len(invoked) >= PhaseIndex(TRADE_DECISION)

Count(seq, x) == Cardinality({i \in DOMAIN seq : seq[i] = x})

AnalystsReturned == phase = 2 /\ pc = "return" /\ "analysts_to_run" \in DOMAIN agent_state

AnalystRaised(a) == <<ANALYSTS, "agent_raised", a>> \in faults

Wrote(w) == w.outcome \in {"stub", "report"}

\* C8: with the six analysts in a pool of four, each report field holds the
\* value of its own analyst from the moment that analyst has stored it, its
\* lineage names that analyst from the moment the analyst's set has finished,
\* and all six fields are there when the phase returns, for every
\* interleaving of the steps of context.set.
C8_ConcurrentReportsAreKept ==
    /\ \A a \in DOMAIN workers :
           /\ (Wrote(workers[a]) /\ workers[a].pc \notin {"queued", "store"}) =>
                  AnalysisContext_get(ctx, REPORTS, output_field_map(a), Absent)
                      = stub_report(a, AnalysisContext_get(ctx, CONTEXT, "ticker", NoneV))
           /\ (Wrote(workers[a]) /\ workers[a].pc \in {"finished", "collected"}) =>
                  get_field_source(ctx, REPORTS, output_field_map(a)) = a
    /\ (pc = "return" /\ agent_state.parallel) =>
           /\ DOMAIN workers = Range(default_analysts)
           /\ \A a \in Range(default_analysts) :
                  /\ workers[a].pc = "collected"
                  /\ output_field_map(a) \in DOMAIN ctx[REPORTS]

\* the pool returned with the six reports, the last analyst collected first
C8_Witness ==
    /\ pc = "return"
    /\ cfg.max_workers = DefaultMaxWorkers
    /\ Cardinality(DOMAIN ctx[REPORTS]) = Len(default_analysts)
    /\ phase_outputs.analysts_run[1] = "index_analyst"
    /\ phase_outputs.analysts_run[Len(default_analysts)] = "market_analyst"

WorkersDone == \A a \in DOMAIN workers : workers[a].pc = "collected"

\* C9: the ResearchDebate executor is never invoked, and no later step of
\* analyze is taken, while a worker of the Analysts pool is still running.
C9_DebateWaitsForThePool ==
    (Started /\ Len(invoked) >= PhaseIndex(RESEARCH_DEBATE)) => WorkersDone

\* the debate phase is entered after a pool of two workers has run
C9_Witness ==
    /\ pc = "rd"
    /\ invoked[Len(invoked)] = RESEARCH_DEBATE
    /\ Cardinality(DOMAIN workers) = 2
    /\ WorkersDone
-----------------------------------------------------------------------------
(* Lineage, timestamps and the legacy conversion of AnalysisContext *)

\* the (layer, field) pairs a context can hold
LineagePairs ==
    DataLayer \X {"market_report", "ticker", "technical", "final_decision",
                  "risk_assessment"}

\* C11: a set call that passes a source makes get_field_source of its
\* (layer, field) equal to that source; a set call without a source (None, or
\* the empty string, which `if source` treats alike) leaves the lineage entry
\* of its (layer, field) as it was; no set call touches the lineage entry of
\* another (layer, field).  By induction over the calls, get_field_source is
\* the source of the most recent set call on the pair that gave one.
C11_LineageFollowsLastSource ==
    [][ call'.op = "set" =>
          /\ IF Truthy(call'.source)
             THEN get_field_source(ctx', call'.layer, call'.field_name) = call'.source
             ELSE get_field_source(ctx', call'.layer, call'.field_name)
                  = get_field_source(ctx, call'.layer, call'.field_name)
          /\ \A p \in LineagePairs :
                p # <<call'.layer, call'.field_name>> =>
                   get_field_source(ctx', p[1], p[2]) = get_field_source(ctx, p[1], p[2])
      ]_vars

\* a second set on reports.market_report omitted the source and the entry
\* written by the first set is still there
C11_Witness ==
    /\ ncalls = 2
    /\ call.op = "set" /\ call.source = None
    /\ call.layer = REPORTS /\ call.field_name = "market_report"
    /\ get_field_source(ctx, REPORTS, "market_report") = "market_analyst"
    /\ ctx.reports["market_report"] = S(<<"v2">>)

\* f restricted to the keys in K that it has
Restrict(f, K) == [k \in K \cap DOMAIN f |-> f[k]]

HasLineage(c, L, F) == lineage_key(L, F) \in DOMAIN c.data_lineage

\* C12 (as stated): every write records the lineage entry, so each field
\* present in a layer has a lineage entry.
C12_EveryFieldHasLineage ==
    \A L \in DataLayer : \A F \in DOMAIN ctx[L] : HasLineage(ctx, L, F)

\* C12 (amended): a set call that passes a non-empty source leaves the field
\* it wrote with a lineage entry; a field that is present without a lineage
\* entry was already so before the step, or was written by this step with a
\* set call that passed no source, or by from_legacy_state.
C12_LineageRecordedWhenSourceGiven ==
    [][ /\ (call'.op = "set" /\ Truthy(call'.source)) =>
              HasLineage(ctx', call'.layer, call'.field_name)
        /\ \A L \in DataLayer : \A F \in DOMAIN ctx'[L] :
              ~ HasLineage(ctx', L, F) =>
                 \/ F \in DOMAIN ctx[L] /\ ~ HasLineage(ctx, L, F)
                 \/ /\ call'.op = "set" /\ ~ Truthy(call'.source)
                    /\ call'.layer = L /\ call'.field_name = F
                 \/ call'.op = "from_legacy_state"
      ]_vars

\* a context made by from_legacy_state, then written by a set with a source:
\* the field written has its lineage entry, the others have none
C12_Witness ==
    /\ ncalls = 2
    /\ call.op = "set" /\ call.source = "market_analyst"
    /\ call.layer = REPORTS /\ call.field_name = "market_report"
    /\ DOMAIN ctx.reports = ReportFields
    /\ DOMAIN ctx.data_lineage = {lineage_key(REPORTS, "market_report")}

\* the fields the conversion declares
DeclaredLegacyFields == LegacyKeys \ {"company_of_interest", "trade_date"}

\* C14 (as stated): to_legacy_state of from_legacy_state(S) equals S on the
\* declared fields.
C14_RoundTripIsIdentity ==
    [][ (call.op = "from_legacy_state" /\ call'.op = "to_legacy_state") =>
            Restrict(ret', DeclaredLegacyFields)
            = Restrict(call.state, DeclaredLegacyFields)
      ]_vars

\* C14 (amended): to_legacy_state of from_legacy_state(S) holds, for every
\* declared field, the value S holds for it, and the default of the field
\* ("" , or {} for the two debate states) where S does not have the field.
C14_RoundTripKeepsPresentFields ==
    [][ (call.op = "from_legacy_state" /\ call'.op = "to_legacy_state") =>
            /\ DeclaredLegacyFields \subseteq DOMAIN ret'
            /\ \A k \in DeclaredLegacyFields :
                  ret'[k] = IF k \in DOMAIN call.state THEN call.state[k]
                            ELSE LegacyDefault(k)
      ]_vars

\* a state with a ticker, a date and one report went through both
\* conversions: the report is back, the missing plan came back as ""
C14_Witness ==
    /\ call.op = "to_legacy_state"
    /\ DOMAIN ctx.reports = ReportFields
    /\ ctx.data_lineage = EmptyDict
    /\ ret # EmptyDict
    /\ ret["market_report"] = S(<<"market_report", "v1">>)
    /\ ret["investment_plan"] = S(<<>>)
    /\ ret["risk_debate_state"] = D(EmptyDict)

\* C13: updated_at never moves to an earlier time than a value it held
\* before, whatever the interleaving of the set calls of the analyst workers.
C13_UpdatedAtNeverGoesBack ==
    [][ctx'.updated_at >= ctx.updated_at]_vars


-----------------------------------------------------------------------------
(* get_data *)

\* the field names one input DataAccess puts into the data dict of get_data
Yields(c, access) ==
    IF access.fields # <<>>
    THEN {f \in Range(access.fields) : f \in DOMAIN c[access.layer] \/ access.required}
    ELSE DOMAIN c[access.layer]

\* the value it puts there
YieldedValue(c, access, f) ==
    IF f \in DOMAIN c[access.layer] THEN c[access.layer][f] ELSE NoneV

-----------------------------------------------------------------------------
(* get_layer *)

\* C25: adding, removing or replacing a key in the mapping get_layer returned
\* leaves the result of get, for every layer and field, and of get_layer, for
\* every layer, as it was.
C25_GetLayerReturnsSnapshot ==
    [][ call'.op = "change_returned" =>
          \A L \in DataLayer :
             /\ get_layer(ctx', L) = get_layer(ctx, L)
             /\ \A F \in AccessFields :
                   AnalysisContext_get(ctx', L, F, Absent)
                   = AnalysisContext_get(ctx, L, F, Absent)
      ]_vars

\* the caller replaced, in the mapping it got, the value of a field the
\* layer holds: the mapping and the layer now differ
C25_Witness ==
    /\ call.op = "change_returned" /\ call.change = "replace"
    /\ call.key \in DOMAIN ctx[call.layer]
    /\ ret.data[call.key] = call.value
    /\ ctx[call.layer][call.key] # call.value
-----------------------------------------------------------------------------
(* The schema: core fields and the priority of the three sources *)

\* every output of the list names a core field of its own layer
OnlyCoreNames(outputs) ==
    \A i \in DOMAIN outputs : \A f \in Range(outputs[i].fields) :
        f \in DOMAIN init_core_fields[outputs[i].layer]

\* C15: after every register_agent_fields, reset_agent_fields and
\* reload_extend_schema call each core field is still a core field and
\* get_all_fields returns its original definition, whose source is "core";
\* a registration whose outputs all name core fields of their own layer
\* leaves the whole schema as it was.
C15_CoreFieldsAreImmutable ==
    [][ /\ \A L \in DataLayer : \A f \in DOMAIN init_core_fields[L] :
              /\ is_core_field(schema', L, f)
              /\ get_all_fields(schema', L)[f] = init_core_fields[L][f]
              /\ get_all_fields(schema', L)[f].source = "core"
        /\ (call'.op = "register_agent_fields" /\ OnlyCoreNames(call'.outputs)) =>
              schema' = schema
      ]_vars

\* an agent registered context.ticker together with context.industry, after
\* a file that names ticker was loaded: industry is the agent's, ticker is
\* the core definition
C15_Witness ==
    /\ call.op = "register_agent_fields"
    /\ \E i \in DOMAIN call.outputs :
          call.outputs[i].layer = CONTEXT /\ "ticker" \in Range(call.outputs[i].fields)
    /\ "industry" \in DOMAIN schema.agent[CONTEXT]
    /\ "industry" \in DOMAIN schema.extend[CONTEXT]
    /\ "ticker" \notin DOMAIN schema.agent[CONTEXT]
    /\ get_all_fields(schema, CONTEXT)["ticker"].field_type = "string"

\* C16: get_all_fields(layer) has exactly the names some source defines, and
\* gives each name the definition of the first of core, agent, extension
\* that defines it, in every state reached by registrations and loads in
\* any order.
C16_FixedPriorityOfSources ==
    \A L \in DataLayer :
       LET all == get_all_fields(schema, L)
       IN  /\ DOMAIN all = DOMAIN schema.core[L] \cup DOMAIN schema.agent[L]
                           \cup DOMAIN schema.extend[L]
           /\ \A f \in DOMAIN all :
                 all[f] = IF f \in DOMAIN schema.core[L] THEN schema.core[L][f]
                          ELSE IF f \in DOMAIN schema.agent[L] THEN schema.agent[L][f]
                          ELSE schema.extend[L][f]

\* reports.market_report was registered by an agent and then loaded from a
\* file: the later load does not win
C16_Witness ==
    /\ call.op = "reload_extend_schema"
    /\ "market_report" \in DOMAIN schema.agent[REPORTS]
    /\ "market_report" \in DOMAIN schema.extend[REPORTS]
    /\ schema.extend[REPORTS]["market_report"].source = "custom"
    /\ get_all_fields(schema, REPORTS)["market_report"].source = "market_analyst"

-----------------------------------------------------------------------------
(* The validator: core conflicts, dependencies, validity of a result *)

\* the number of indexes of a list that satisfy P
CountWhere(list, P(_)) == Cardinality({i \in DOMAIN list : P(list[i])})

\* the number of times (layer, f) is declared by a list of accesses
Declarations(accesses, layer, f) ==
    Cardinality({<<i, j>> \in UNION {{i} \X DOMAIN accesses[i].fields :
                                        i \in DOMAIN accesses} :
                    accesses[i].layer = layer /\ accesses[i].fields[j] = f})

\* the core_conflict errors of vr are those the outputs of the contract call
\* for: for every layer and field, as many as the contract declares the
\* field in the layer when it is a core field of a layer other than
\* Decisions, and none otherwise
CoreConflictsAsDeclared(contract, vr) ==
    LET names == UNION {Range(contract.outputs[i].fields) : i \in DOMAIN contract.outputs}
                 \cup {vr.errors[k].field_name : k \in DOMAIN vr.errors}
    IN  \A L \in DataLayer : \A f \in names :
            LET conflict(e) == /\ e.error_type = "core_conflict"
                               /\ e.agent_id = contract.agent_id
                               /\ e.layer = L /\ e.field_name = f
            IN  CountWhere(vr.errors, conflict)
                = IF f \in DOMAIN init_core_fields[L] /\ L # DECISIONS
                  THEN Declarations(contract.outputs, L, f)
                  ELSE 0

\* C17: validate_contract reports one core_conflict error for each output
\* declaration of a core field of a layer other than Decisions and none for
\* an output declared on the Decisions layer; the same holds for each result
\* of validate_all_contracts.
C17_CoreConflictExceptDecisions ==
    [][ /\ call'.op = "validate_contract" =>
              CoreConflictsAsDeclared(call'.contract,
                                      results'[call'.contract.agent_id])
        /\ call'.op = "validate_all_contracts" =>
              \A i \in DOMAIN call'.contracts :
                 CoreConflictsAsDeclared(call'.contracts[i],
                                         results'[call'.contracts[i].agent_id])
      ]_vars

\* the contract that declares context.ticker twice, context.currency and
\* decisions.final_decision was validated: three errors, all on the Context
\* layer
C17_Witness ==
    /\ call.op = "validate_contract" /\ call.contract = CORE_WRITER_CONTRACT
    /\ ~ call.check_dependencies /\ ~ call.strict_input_check
    /\ Len(results["core_writer"].errors) = 3
    /\ \A k \in 1 .. 3 : /\ results["core_writer"].errors[k].error_type = "core_conflict"
                         /\ results["core_writer"].errors[k].layer = CONTEXT

HasMissingDependency(vr, dep_id) ==
    \E k \in DOMAIN vr.errors :
        /\ vr.errors[k].error_type = "missing_dependency"
        /\ vr.errors[k].message = missing_dependency_message(dep_id)

\* C18: validate_all_contracts with check_dependencies reports
\* missing_dependency for a contract of the list and an agent id exactly
\* when the contract depends on the id and the id is neither the agent_id of
\* a contract of the list nor registered before the call; every ordering of
\* the list gives the same results.
C18_AllRegisteredBeforeValidation ==
    [][ (call'.op = "validate_all_contracts" /\ call'.check_dependencies) =>
          LET contracts == call'.contracts
              listed == {contracts[i].agent_id : i \in DOMAIN contracts}
              ids == listed \cup DOMAIN registered_agents
                     \cup UNION {c.depends_on : c \in ValidatorContracts}
          IN  /\ \A i \in DOMAIN contracts : \A dep_id \in ids :
                    HasMissingDependency(results'[contracts[i].agent_id], dep_id)
                    <=> /\ dep_id \in contracts[i].depends_on
                        /\ dep_id \notin listed
                        /\ dep_id \notin DOMAIN registered_agents
              /\ \A other \in Orderings(contracts) :
                    validate_all_contracts(schema, registered_agents, other, TRUE).results
                    = results'
      ]_vars

\* neutral_risk was validated before trader, on which it depends, in one
\* list: it has no error, and trader lacks research_manager
C18_Witness ==
    /\ call.op = "validate_all_contracts" /\ call.check_dependencies
    /\ call.contracts = <<NEUTRAL_RISK_CONTRACT, TRADER_CONTRACT>>
    /\ results["neutral_risk"].is_valid
    /\ HasMissingDependency(results["trader"], "research_manager")
    /\ ~ results["trader"].is_valid

\* C19: add_error leaves is_valid false, add_warning leaves is_valid and the
\* errors as they were, so neither makes an invalid result valid; a result
\* that holds an error is never valid.
C19_IsValidOnlyFalls ==
    [][ /\ call'.op = "add_error" => ~ results'[call'.agent_id].is_valid
        /\ call'.op = "add_warning" =>
              /\ results'[call'.agent_id].is_valid = results[call'.agent_id].is_valid
              /\ results'[call'.agent_id].errors = results[call'.agent_id].errors
        /\ call'.op \in {"add_error", "add_warning"} =>
              \A a \in DOMAIN results : ~ results[a].is_valid => ~ results'[a].is_valid
        /\ \A a \in DOMAIN results' :
              results'[a].errors # <<>> => ~ results'[a].is_valid
      ]_vars

\* a valid result got an error and then a warning
C19_Witness ==
    /\ call.op = "add_warning"
    /\ LET vr == results[call.agent_id]
       IN  /\ vr.errors = <<CallerError(call.agent_id)>>
           /\ vr.warnings # <<>>
           /\ ~ vr.is_valid

-----------------------------------------------------------------------------
(* DataAccessManager: optional inputs and the access log *)

\* C21: get_data returns None in its map for every listed field of an
\* optional input DataAccess (required = false) that is absent from the
\* layer and that no other input access of the contract yields.
C21_OptionalAbsentFieldIsNone ==
    [][ call'.op = "get_data" =>
          LET inputs == call'.contract.inputs
          IN  \A i \in DOMAIN inputs : \A f \in Range(inputs[i].fields) :
                 (/\ ~ inputs[i].required
                  /\ f \notin DOMAIN ctx[inputs[i].layer]
                  /\ \A j \in DOMAIN inputs : f \notin Yields(ctx, inputs[j]))
                 => (f \in DOMAIN ret' /\ ret'[f] = NoneV)
      ]_vars

\* the entries a step appended to the access log
Appended == SubSeq(access_log', Len(access_log) + 1, Len(access_log'))

\* the (layer, field) pairs set_data writes, in the order of the output
\* accesses of the contract and of their fields
RECURSIVE WrittenPairs(_, _, _, _)
WrittenPairs(outputs, accesses, i, j) ==
    IF i > Len(accesses) THEN <<>>
    ELSE IF j > Len(accesses[i].fields) THEN WrittenPairs(outputs, accesses, i + 1, 1)
    ELSE (IF accesses[i].fields[j] \in DOMAIN outputs
          THEN << <<accesses[i].layer, accesses[i].fields[j]>> >>
          ELSE <<>>)
         \o WrittenPairs(outputs, accesses, i, j + 1)

\* the readings of datetime.now() a step made in AnalysisContext.set: all
\* its readings but the one of each appended log entry
ContextWrites == (clock' - clock) - (Len(access_log') - Len(access_log))

\* C22: a get_data call appends one read entry per input DataAccess of the
\* contract, in their order; a set_data call appends one write entry per
\* field it writes, in the order of the writes, and as many entries as it
\* made context writes; neither call touches the entries that were there.
C22_OneEntryPerAccess ==
    [][ /\ call'.op \in {"get_data", "set_data"} =>
              /\ Len(access_log') >= Len(access_log)
              /\ SubSeq(access_log', 1, Len(access_log)) = access_log
              /\ \A k \in DOMAIN Appended : Appended[k].agent_id = call'.agent_id
        /\ call'.op = "get_data" =>
              LET inputs == call'.contract.inputs
              IN  /\ Len(Appended) = Len(inputs)
                  /\ ContextWrites = 0
                  /\ \A k \in DOMAIN Appended :
                        /\ Appended[k].action = "read"
                        /\ Appended[k].layer = inputs[k].layer
                        /\ IF inputs[k].fields # <<>>
                           THEN Appended[k].fields = inputs[k].fields
                           ELSE Range(Appended[k].fields) = DOMAIN ctx[inputs[k].layer]
        /\ call'.op = "set_data" =>
              LET pairs == WrittenPairs(call'.outputs, call'.contract.outputs, 1, 1)
              IN  /\ Len(Appended) = Len(pairs)
                  /\ ContextWrites = Len(Appended)
                  /\ \A k \in DOMAIN Appended :
                        /\ Appended[k].action = "write"
                        /\ Appended[k].layer = pairs[k][1]
                        /\ Appended[k].fields = <<pairs[k][2]>>
      ]_vars

\* a set_data call that wrote one field name to two layers, after a get_data
\* call that logged one read
C22_Witness ==
    /\ call.op = "set_data" /\ call.contract = TWO_LAYER_CONTRACT
    /\ Len(access_log) = 3
    /\ access_log[1].action = "read"
    /\ access_log[2].action = "write" /\ access_log[2].layer = CONTEXT
    /\ access_log[3].action = "write" /\ access_log[3].layer = DECISIONS

\* C23: every get_data call and every set_data call appends at least one
\* entry to the access log.
C23_EveryCallIsLogged ==
    [][ call'.op \in {"get_data", "set_data"} => Len(access_log') > Len(access_log) ]_vars

\* C24: the access log before a step is a prefix of the access log after it.
C24_LogIsAppendOnly ==
    [][ /\ Len(access_log') >= Len(access_log)
        /\ SubSeq(access_log', 1, Len(access_log)) = access_log ]_vars

-----------------------------------------------------------------------------
(* Claims on the phase executors *)

\* the context as _create_context leaves it, for the arguments of the run
ContextAtCreation ==
    create_context(cfg.ticker, cfg.trade_date, cfg.company_name, cfg.market_type, 2)

\* C26: in a run whose ticker or trade_date is None or empty, the context
\* always holds exactly what _create_context put in; the only exception
\* raised is the one of DataCollection about the missing argument; and when
\* analyze has returned, DataCollection is the only executor that was
\* invoked and phase_results has exactly one entry, with success False.
C26_MissingArgumentHaltsTheRun ==
    (Started /\ (~ TruthyV(cfg.ticker) \/ ~ TruthyV(cfg.trade_date))) =>
        /\ ctx = ContextAtCreation
        /\ raised \in {<<>>,
                       << <<DATA_COLLECTION,
                            IF ~ TruthyV(cfg.ticker) THEN TickerRequired
                            ELSE TradeDateRequired>> >>}
        /\ pc \in {"return", "finish", "done"} => raised # <<>>
        /\ Returned =>
              /\ invoked = <<DATA_COLLECTION>>
              /\ Len(result.phase_results) = 1
              /\ result.phase_results[1].phase = DATA_COLLECTION
              /\ ~ result.phase_results[1].success
              /\ ~ result.success

\* analyze returned from a run without a trade date
C26_Witness ==
    /\ Returned
    /\ TruthyV(cfg.ticker) /\ ~ TruthyV(cfg.trade_date)
    /\ raised = << <<DATA_COLLECTION, TradeDateRequired>> >>
    /\ Len(result.phase_results) = 1

\* a number of [0, 1], in hundredths
InUnitInterval(v) == IsNum(v) /\ v.num >= 0 /\ v.num <= 100

\* C27: whenever TradeDecision has written Decisions.trade_signal, the
\* signal has an action of BUY, SELL, HOLD, a position_size in [0, 1] and a
\* confidence in [0, 1].
C27_TradeSignalIsInRange ==
    (pc = "td_done" /\ "trade_signal" \in DOMAIN ctx[DECISIONS]) =>
        LET signal == ctx[DECISIONS]["trade_signal"].dict
        IN  /\ signal.action \in {S(<<"BUY">>), S(<<"SELL">>), S(<<"HOLD">>)}
            /\ InUnitInterval(signal.position_size)
            /\ InUnitInterval(signal.confidence)

\* TradeDecision took the fallback (no trader result) on a plan that is a text
KeywordFallback ==
    /\ pc = "td_done"
    /\ call.trader \in {"unavailable", "raise"}
    /\ IsStr(ctx[DECISIONS]["investment_plan"])

\* C28: in the keyword-scoring fallback the written signal is BUY exactly
\* when the buy score is greater than the sell score and than the hold
\* score, SELL exactly when the sell score is greater than both others, and
\* in every other case HOLD with confidence 0.5 and position_size 0.
C28_TiesAndNoMajorityHold ==
    KeywordFallback =>
        LET text == lower(ctx[DECISIONS]["investment_plan"].str)
            buy_score == keyword_score(text, td_buy_keywords)
            sell_score == keyword_score(text, td_sell_keywords)
            hold_score == keyword_score(text, hold_keywords)
            signal == ctx[DECISIONS]["trade_signal"].dict
            buy == buy_score > sell_score /\ buy_score > hold_score
            sell == sell_score > buy_score /\ sell_score > hold_score
        IN  /\ signal.action = S(<<"BUY">>) <=> buy
            /\ signal.action = S(<<"SELL">>) <=> sell
            /\ (~ buy /\ ~ sell) =>
                  /\ signal.action = S(<<"HOLD">>)
                  /\ signal.confidence = N(50)
                  /\ signal.position_size = N(0)

\* the fallback ran on a plan with two buy keywords and two sell keywords
C28_Witness ==
    /\ KeywordFallback
    /\ ctx[DECISIONS]["investment_plan"] = S(<<"buy", "bullish", "sell", "bearish">>)
    /\ ctx[DECISIONS]["trade_signal"].dict.action = S(<<"HOLD">>)

\* (bull, bear) n times, then the manager
RECURSIVE DebateTurns(_)
DebateTurns(n) ==
    IF n = 0 THEN <<"research_manager">>
    ELSE <<"bull_researcher", "bear_researcher">> \o DebateTurns(n - 1)

\* C29: the agent turns of a ResearchDebate run with N rounds are a prefix
\* of (bull, bear) repeated N times followed by one manager turn, and all of
\* it once execute has returned; every turn is handed the state the turn
\* before it returned (the first one the initial state); and
\* Decisions.investment_plan is in the context only when the manager turn
\* has taken place.
C29_TurnsInOrder ==
    pc # "rd_start" =>
        /\ IsPrefix([i \in DOMAIN invoked |-> invoked[i].agent_id],
                    DebateTurns(cfg.debate_rounds))
        /\ pc = "rd_done" => Len(invoked) = 2 * cfg.debate_rounds + 1
        /\ \A i \in DOMAIN invoked :
              invoked[i].saw =
                 IF i = 1 THEN rd_build_initial_state(DebateContext,
                                                      collect_analyst_reports(DebateContext))
                 ELSE invoked[i - 1].left
        /\ "investment_plan" \in DOMAIN ctx[DECISIONS] =>
              /\ invoked # <<>>
              /\ invoked[Len(invoked)].agent_id = "research_manager"

\* a debate of two rounds whose researchers all answered returned: the
\* history holds the four arguments in the order of the turns
C29_Witness ==
    /\ pc = "rd_done" /\ cfg.debate_rounds = 2
    /\ "investment_plan" \in DOMAIN ctx[DECISIONS]
    /\ ctx[DECISIONS]["investment_debate_state"].dict.history
         = S(<<"Bull:", "growth", "Bear:", "debt", "Bull:", "growth", "Bear:", "debt">>)

\* the text sub occurs in the text t
OccursIn(sub, t) ==
    \E i \in 1 .. (Len(t) - Len(sub) + 1) : SubSeq(t, i, i + Len(sub) - 1) = sub

\* C30: when RiskAssessment has written final_trade_decision and the risk
\* debate state it wrote in the same run holds a non-empty judge decision of
\* the risk manager, the text of that decision is part of
\* final_trade_decision.
C30_FinalTextHoldsTheRiskDecision ==
    (Started /\ "final_trade_decision" \in DOMAIN ctx[DECISIONS]) =>
        LET risk_debate_state == ctx[DECISIONS]["risk_debate_state"]
            judge_decision == DictGet(risk_debate_state.dict, "judge_decision", Empty)
        IN  TruthyV(judge_decision) =>
                OccursIn(judge_decision.str, ctx[DECISIONS]["final_trade_decision"].str)

(* The result of analyze and the decisions the phases leave (Spec, SpecAnalysts) *)

Actions == {S(<<"BUY">>), S(<<"SELL">>), S(<<"HOLD">>)}

AnalystsTouched ==
    Range(phase_outputs.analysts_run) \cup Range(phase_outputs.analysts_failed)

\* a selection was handed to the phase: selected_analysts is a list
SelectionGiven == ~ IsNone(cfg.selected_analysts)

\* C32: when a selection of analysts is given to the Analysts phase, the
\* phase runs only analysts of that selection that are among the six known
\* analysts; when no selection is given it runs the default six.
C32_OnlySelectedAnalystsRun ==
    AnalystsReturned =>
        /\ SelectionGiven =>
               AnalystsTouched \subseteq
                   (Range(cfg.selected_analysts.list) \cap Range(default_analysts))
        /\ ~ SelectionGiven => AnalystsTouched = Range(default_analysts)

\* the fields of the Reports layer whose lineage names the source
ReportsWrittenBy(source) ==
    {f \in DOMAIN ctx[REPORTS] : get_field_source(ctx, REPORTS, f) = source}

\* C33: when the Analysts phase returns, each analyst listed in analysts_run
\* has written exactly one field of the Reports layer, its own report field,
\* whose lineage is the analyst id, and every field listed in
\* reports_generated is present in the Reports layer.
C33_ReportedAnalystsWroteTheirReport ==
    AnalystsReturned =>
        /\ \A a \in Range(phase_outputs.analysts_run) :
               ReportsWrittenBy(a) = {output_field_map(a)}
        /\ \A f \in Range(phase_outputs.reports_generated) :
               f \in DOMAIN ctx[REPORTS]

\* the last step was a run of DataCollectionPhase.execute that returned, on a
\* context whose market type is cn
CollectedCn(c, last_call, returned) ==
    /\ last_call.op = "execute"
    /\ IsNone(returned.exc)
    /\ AnalysisContext_get(c, CONTEXT, "market_type", NoneV) = S(CN)

\* the ticker of the context ends with .SZ, .SH or .BJ
CarriesSuffix(c) ==
    \E x \in CnSuffixes :
        endswith(AnalysisContext_get(c, CONTEXT, "ticker", NoneV).str, x)

\* C34: for market type cn, after DataCollectionPhase.execute has returned
\* the ticker of the Context layer carries none of the suffixes .SZ, .SH,
\* .BJ, and a further run of the phase on that context changes nothing in it.
C34_NormalizedTickerIsStable ==
    [][ /\ CollectedCn(ctx', call', ret') => ~ CarriesSuffix(ctx')
        /\ (CollectedCn(ctx, call, ret) /\ call'.op = "execute") => ctx' = ctx ]_vars

\* agent a depends on a field that the listed agent b produces
DependsOnListed(s, agent_ids, a, b) ==
    /\ a \in Range(agent_ids)
    /\ b \in Range(agent_ids)
    /\ \E k \in DOMAIN dependencies_of(s, a) :
           LET f == dependencies_of(s, a)[k]
           IN  f \in DOMAIN s.fields /\ s.fields[f].source_agent = b

\* b is reached from a along one to three dependencies among the listed agents
ReachesListed(s, agent_ids, a, b) ==
    \/ DependsOnListed(s, agent_ids, a, b)
    \/ \E m \in Range(agent_ids) :
           DependsOnListed(s, agent_ids, a, m) /\ DependsOnListed(s, agent_ids, m, b)
    \/ \E m, n \in Range(agent_ids) :
           /\ DependsOnListed(s, agent_ids, a, m)
           /\ DependsOnListed(s, agent_ids, m, n)
           /\ DependsOnListed(s, agent_ids, n, b)

AcyclicAmongListed(s, agent_ids) ==
    \A a \in Range(agent_ids) : ~ ReachesListed(s, agent_ids, a, a)

\* the position of an agent in an order that lists it once
PositionIn(order, a) == CHOOSE i \in DOMAIN order : order[i] = a

IsPermutationOf(order, agent_ids) ==
    /\ Len(order) = Len(agent_ids)
    /\ Range(order) = Range(agent_ids)

\* C35: for a list without duplicates get_execution_order returns a
\* permutation of the list, and when the field dependencies among the listed
\* agents have no cycle every agent comes after every listed agent that
\* produces a field it depends on.
C35_ExecutionOrderIsTopological ==
    call.op = "get_execution_order" =>
        /\ IsPermutationOf(ret, call.agent_ids)
        /\ AcyclicAmongListed(schema, call.agent_ids) =>
               \A a, b \in Range(call.agent_ids) :
                   DependsOnListed(schema, call.agent_ids, a, b) =>
                       PositionIn(ret, b) < PositionIn(ret, a)

\* an order that differs from the list given: the trader is listed first, it
\* depends on the plan of the researcher, who depends on the report of the
\* analyst
C35_Witness ==
    /\ call.op = "get_execution_order"
    /\ call.agent_ids = <<"trader", "bull_researcher", "market_analyst">>
    /\ AcyclicAmongListed(schema, call.agent_ids)
    /\ ret = <<"market_analyst", "bull_researcher", "trader">>


-----------------------------------------------------------------------------

\* C36: when analyze has returned, success is true exactly when
\* phase_results holds five entries that all succeeded; error is None
\* exactly when success is true; and final_decision is None whenever success
\* is false, also when a phase left a final_decision in the context.
C36_ResultFieldsAgree ==
    Returned =>
        /\ result.success <=>
              /\ Len(result.phase_results) = 5
              /\ \A i \in DOMAIN result.phase_results :
                     result.phase_results[i].success
        /\ IsNone(result.error) <=> result.success
        /\ ~ result.success => IsNone(result.final_decision)

\* analyze returned a failure from a run whose last executor stored a final
\* decision in the context before it raised
C36_Witness ==
    /\ Returned
    /\ ~ result.success
    /\ Len(result.phase_results) = 5
    /\ ~ IsNone(result.error)
    /\ AnalysisContext_get(ctx, DECISIONS, "final_decision", NoneV) = CustomDecision
    /\ IsNone(result.final_decision)

-----------------------------------------------------------------------------

\* C37: in every state of a run of analyze with the built-in phase
\* executors, each field present in a layer of the context has a
\* data_lineage entry.
C37_PresentFieldsHaveLineage ==
    cfg.custom = {} =>
        \A L \in DataLayer : \A F \in DOMAIN ctx[L] : HasLineage(ctx, L, F)

-----------------------------------------------------------------------------

\* the step is a set_data call that wrote field F into layer L
SetDataWrote(L, F) ==
    \E i \in DOMAIN Appended :
        /\ Appended[i].action = "write"
        /\ Appended[i].layer = L
        /\ Appended[i].fields = <<F>>
        /\ F \in DOMAIN ctx'[L]
        /\ ctx'[L][F] = call'.outputs[F]

\* C38: set_data and validate_access agree on the permission to write: for
\* each layer L and each field F of outputs, a set_data call writes F into L
\* exactly when validate_access(agent, contract, L, F, "write") is true, the
\* output DataAccess with an empty fields list included.
C38_SetDataAgreesWithValidateAccess ==
    [][ call'.op = "set_data" =>
            \A L \in DataLayer : \A F \in DOMAIN call'.outputs :
                SetDataWrote(L, F)
                <=> validate_access(call'.agent_id, call'.contract, L, F, "write")
      ]_vars

-----------------------------------------------------------------------------

\* what a phase stored in the decisions layer under a name, if it did
StoredDecision(name) == AnalysisContext_get(ctx, DECISIONS, name, NoneV)

\* C39: after a successful run the dict of context.to_legacy_state() carries
\* what the phases stored: its investment_debate_state is the debate state
\* ResearchDebate stored, its risk_debate_state the one RiskAssessment
\* stored, its final_trade_decision the final decision RiskAssessment stored.
C39_LegacyStateCarriesThePhases ==
    (Returned /\ result.success) =>
        LET legacy == to_legacy_state(ctx)
        IN  /\ "investment_debate_state" \in DOMAIN ctx.decisions =>
                  legacy["investment_debate_state"]
                  = StoredDecision("investment_debate_state")
            /\ "risk_debate_state" \in DOMAIN ctx.decisions =>
                  legacy["risk_debate_state"] = StoredDecision("risk_debate_state")
            /\ "final_decision" \in DOMAIN ctx.decisions =>
                  legacy["final_trade_decision"] = StoredDecision("final_decision")

-----------------------------------------------------------------------------

\* the result carries a non-empty report of the agent of the call
CarriesReport(vr) ==
    /\ call.report_field # None
    /\ call.report_field \in DOMAIN vr
    /\ TruthyV(vr[call.report_field])

HasNoMessages(vr) == "messages" \notin DOMAIN vr \/ Len(vr["messages"]) = 0

LastRequestsNoToolCall(vr) ==
    LET m == vr["messages"][Len(vr["messages"])]
    IN  "tool_calls" \notin DOMAIN m \/ Len(m.tool_calls) = 0

\* an invocation after which run_agent_with_tools is to return
EndsTheRun(vr) ==
    CarriesReport(vr) \/ HasNoMessages(vr) \/ LastRequestsNoToolCall(vr)

AgentReturned(i) == invoked[i] # AgentCallError

IntegratorDone == pc \in {"returned", "raised"}

\* the agent was invoked at most max_iterations times; no invocation but the
\* last one ended the run; a returned call hands back the result of the last
\* invocation, which ended the run or was invocation number max_iterations
BoundedInvocations ==
    pc \in {"loop", "returned", "raised"} =>
        /\ Len(invoked) <= call.max_iterations
        /\ \A i \in DOMAIN invoked :
               (i < Len(invoked) \/ pc = "loop") =>
                   AgentReturned(i) /\ ~ EndsTheRun(invoked[i])
        /\ pc = "returned" =>
               /\ invoked # <<>>
               /\ AgentReturned(Len(invoked))
               /\ ret = invoked[Len(invoked)]
               /\ EndsTheRun(ret) \/ Len(invoked) = call.max_iterations

\* C40: run_agent_with_tools always terminates, after at most max_iterations
\* invocations of the agent: it returns at the first invocation whose result
\* carries a non-empty report, or has no messages, or whose last message
\* requests no tool call, and otherwise stops when the bound is reached,
\* whatever the agent returns.
C40_RunAgentWithToolsTerminates ==
    /\ [] BoundedInvocations
    /\ (pc = "loop") ~> IntegratorDone

\* the default three invocations all asked for tools, and the call returned
\* the result of the third
C40_Witness ==
    /\ pc = "returned"
    /\ call.max_iterations = DefaultMaxIterations
    /\ Len(invoked) = DefaultMaxIterations
    /\ ~ EndsTheRun(ret)
    /\ Len(agent_state["messages"]) >= 2 * DefaultMaxIterations

====
